---- MODULE Spec2Model ----
(***************************************************************************)
(* Model of the lessons' deterministic logic.                              *)
(*                                                                         *)
(* Part 1: the calculator tool of lesson_02_first_tool.py.  The tool hands  *)
(* the expression text to the host language's eval() with an empty         *)
(* __builtins__ and a fixed table of allowed names, formats the value, and *)
(* maps four exception classes to four messages.  eval() is modelled as    *)
(* what it does: a parser for the expression grammar over the token        *)
(* alphabet below, and an evaluator over typed values.                     *)
(*                                                                         *)
(* Texts (the expression, the returned string, exception messages) are     *)
(* sequences of pieces: a piece is a token of the expression, a fixed      *)
(* phrase of the code, or one character of a formatted number.  The        *)
(* expression text is its tokens separated by blanks.                      *)
(*                                                                         *)
(* Numbers are exact rationals n/d.  A binary64 value that is not a        *)
(* rational the model can carry exactly (square roots, pi, e) is carried   *)
(* as a rational approximation.                                            *)
(*                                                                         *)
(* Part 2: create_working_model of lesson_utils.py.                        *)
(*                                                                         *)
(* Part 3: the stateful pieces of the later lessons, each with its own     *)
(* specification: the questions asked at once in lessons 1 and 2, the      *)
(* notify-only guardrails hook of lesson 10, the todo tools of lesson 4    *)
(* (one call after the other, and two calls at once), and the notebook     *)
(* and the research assistant of lesson 7.                                 *)
(***************************************************************************)
EXTENDS Integers, Sequences, FiniteSets, TLC

VARIABLES expression, result, handler, pc, modules, tasks,
          lesson_name, environment, configuration, model,
          example, agents, queries,
          messages, printed,
          state, calls,
          notes, next_id, history,
          sources, citations,
          returned

vars == <<expression, result, handler, pc, modules, tasks,
          lesson_name, environment, configuration, model,
          example, agents, queries, messages, printed, state, calls,
          notes, next_id, history, sources, citations, returned>>
\* the state of the tool, and the state of the creation of a model
tool == <<expression, result, handler, modules, tasks>>
creation == <<lesson_name, environment, configuration, model>>
\* the agents of the async examples, the agent with the guardrails hook, the
\* agent with the todo tools, the notebook (with the ids its tools have given
\* out and deleted so far), the research assistant, and what a tool of the
\* last three returned last
concurrent == <<example, agents, queries>>
guarded == <<messages, printed>>
todo == <<state, calls>>
notebook == <<notes, next_id, history>>
research == <<sources, citations>>
lessons == <<concurrent, guarded, todo, notebook, research, returned>>

\* no async example runs
NoConcurrent == example = "none" /\ agents = <<>> /\ queries = <<>>
\* no agent with a hook
NoGuarded == messages = <<>> /\ printed = <<>>
\* no agent with todo tools
NoTodo == state = <<>> /\ calls = <<>>
\* no notebook
NoNotebook == notes = <<>> /\ next_id = 0 /\ history = <<>>
\* no research assistant
NoResearch == sources = <<>> /\ citations = <<>>
\* none of the lessons after the second runs
NoLessons ==
    /\ NoConcurrent /\ NoGuarded /\ NoTodo /\ NoNotebook /\ NoResearch
    /\ returned = <<>>

RECURSIVE Do(_, _)

(***************************************************************************)
(* Bounds.                                                                 *)
(***************************************************************************)
\* longest expression, in tokens, of the arithmetic specification
MaxLen == 5
\* longest expression, in tokens, of the specification with the full alphabet
MaxLenPy == 4
\* longest expression, in tokens, of the parenthesised expressions
MaxLenParen == 7
\* longest expression, in tokens, of the specification of calls
MaxLenCall == 6
\* longest expression, in tokens, of the specification of powers
MaxLenPow == 6
\* the longest expression of a session drawn token by token
MaxLenSession == 2
\* longest operand, in tokens, of a sum of two operands
MaxLenOperand == 3
\* longest expression, in tokens, of the specification with string literals
MaxLenText == 3
\* longest lesson name, in words
MaxWords == 2
\* significant digits kept when a float that has no finite decimal
\* expansion is printed
SigDigits == 16
\* 1/SqrtScale is the resolution of an approximated square root
SqrtScale == 100

(***************************************************************************)
(* Tokens.                                                                 *)
(***************************************************************************)
NumberTokens == {"0", "1", "2", "0.5"}
\* two string literals: 'a' and the text line 108 returns
DivisionText == "Error: Division by zero is not allowed"
StringTokens == {"'a'", "'Error: Division by zero is not allowed'"}
\* the pieces a string literal holds
StringContent(t) == IF t = "'a'" THEN <<"a">> ELSE <<DivisionText>>
Operators == {"+", "-", "*", "/", "//", "%", "**"}
Keywords == {"True"}
Punctuation == {"(", ")", ",", ".", "=", ":="}

\* lesson_02_first_tool.py:83-97: the names of allowed_names
safe_builtins == {"abs", "round", "min", "max", "pow"}
MathNames == {"pi", "e", "sqrt", "sin", "cos", "tan"}
allowed_names == safe_builtins \cup MathNames

IsNumber(t) == t \in NumberTokens
IsString(t) == t \in StringTokens
\* the identifiers of the model: the allowed names, two names bound nowhere,
\* a builtin the empty __builtins__ hides, and attribute names
OtherNames == {"x", "y", "__import__", "real", "imag",
               "__self__", "__dict__", "update"}
IsName(t) == t \in allowed_names \cup OtherNames

(***************************************************************************)
(* Values.  t is the type; n/d the number (d > 0, lowest terms); s the     *)
(* characters of a str, the items of a tuple, the name of a function or of *)
(* a type, the module a namespace belongs to.                              *)
(***************************************************************************)
Abs(x) == IF x < 0 THEN -x ELSE x

RECURSIVE Gcd(_, _)
Gcd(a, b) == IF b = 0 THEN a ELSE Gcd(b, a % b)

Val(t, n, d, s) == [t |-> t, n |-> n, d |-> d, s |-> s]
IntV(n) == Val("int", n, 1, <<>>)
BoolV(b) == Val("bool", IF b THEN 1 ELSE 0, 1, <<>>)
FloatV(n, d) ==
    LET g == Gcd(Abs(n), Abs(d))
        sg == IF d < 0 THEN -1 ELSE 1
    IN  Val("float", sg * (n \div g), sg * (d \div g), <<>>)
ComplexV == Val("complex", 0, 1, <<>>)
StrV(chars) == Val("str", 0, 1, chars)
TupleV(items) == Val("tuple", 0, 1, items)
FuncV(name) == Val("func", 0, 1, <<name>>)
NoneV == Val("NoneType", 0, 1, <<>>)
\* math.pow, which shares its name with the builtin
MathPowV == Val("func", 0, 1, <<"pow", "math">>)
\* a module, its __dict__, and the bound method update of that dict
ModuleV(m) == Val("module", 0, 1, <<m>>)
DictV(m) == Val("dict", 0, 1, <<m>>)
UpdateV(m) == Val("method", 0, 1, <<"update", m>>)

IsReal(v) == v.t \in {"int", "bool", "float"}
IsNumeric(v) == v.t \in {"int", "bool", "float", "complex"}
\* float.is_integer()
is_integer(v) == v.d = 1

\* the value of a number literal
NumberValue(t) ==
    CASE t = "0" -> IntV(0)
      [] t = "1" -> IntV(1)
      [] t = "2" -> IntV(2)
      [] t = "0.5" -> FloatV(1, 2)

\* the type name the interpreter prints in messages
TypeName(v) ==
    IF v.t \in {"func", "method"} THEN "builtin_function_or_method" ELSE v.t

(***************************************************************************)
(* str() and repr() of values.                                             *)
(***************************************************************************)
DigitChar(k) == <<"0", "1", "2", "3", "4", "5", "6", "7", "8", "9">>[k + 1]
DigitChars == {DigitChar(k) : k \in 0..9}

RECURSIVE Digits(_)
Digits(n) ==
    IF n < 10 THEN <<DigitChar(n)>>
    ELSE Digits(n \div 10) \o <<DigitChar(n % 10)>>

\* str(int)
IntText(n) == IF n < 0 THEN <<"-">> \o Digits(-n) ELSE Digits(n)

\* the first count digits after the point of r/d, r < d, by long division
RECURSIVE FracDigits(_, _, _)
FracDigits(r, d, count) ==
    IF r = 0 \/ count <= 0 THEN <<>>
    ELSE <<DigitChar((r * 10) \div d)>> \o FracDigits((r * 10) % d, d, count - 1)

RECURSIVE StripZeros(_)
StripZeros(ds) ==
    IF ds # <<>> /\ ds[Len(ds)] = "0" THEN StripZeros(SubSeq(ds, 1, Len(ds) - 1))
    ELSE ds

\* zeros between the point and the first significant digit of r/d, 0 < r < d
RECURSIVE LeadingZeros(_, _)
LeadingZeros(r, d) == IF r * 10 >= d THEN 0 ELSE 1 + LeadingZeros(r * 10, d)

\* repr(float): fixed notation, or scientific below 1e-4
FloatRepr(n, d) ==
    LET a == Abs(n)
        sign == IF n < 0 THEN <<"-">> ELSE <<>>
        ip == a \div d
        r == a % d
    IN  IF r = 0 THEN sign \o Digits(ip) \o <<".", "0">>
        ELSE IF ip > 0
        THEN sign \o Digits(ip) \o <<".">>
                  \o StripZeros(FracDigits(r, d, SigDigits - Len(Digits(ip))))
        ELSE LET z == LeadingZeros(r, d)
                 fr == StripZeros(FracDigits(r, d, SigDigits + z))
             IN  IF z < 4 THEN sign \o <<"0", ".">> \o fr
                 ELSE LET sig == SubSeq(fr, z + 1, Len(fr))
                          ex == Digits(z + 1)
                      IN  sign \o <<sig[1]>>
                            \o (IF Len(sig) > 1
                                THEN <<".">> \o SubSeq(sig, 2, Len(sig))
                                ELSE <<>>)
                            \o <<"e", "-">>
                            \o (IF Len(ex) = 1 THEN <<"0">> ELSE <<>>) \o ex

\* repr(complex): the parts are not tracked
ComplexRepr == <<"(", "<re>", "+", "<im>", "j", ")">>

RECURSIVE Repr(_)
RECURSIVE ReprItems(_)
Repr(v) ==
    CASE v.t = "int" -> Do("IntText", <<v.n>>)
      [] v.t = "bool" -> IF v.n = 1 THEN <<"True">> ELSE <<"False">>
      [] v.t = "float" -> Do("FloatRepr", <<v.n, v.d>>)
      [] v.t = "complex" -> ComplexRepr
      [] v.t = "str" -> <<"'">> \o v.s \o <<"'">>
      [] v.t = "tuple" ->
            <<"(">> \o Do("ReprItems", <<v.s>>)
                   \o (IF Len(v.s) = 1 THEN <<",">> ELSE <<>>) \o <<")">>
      [] v.t = "func" -> <<"<built-in function ", v.s[1], ">">>
      [] v.t = "module" ->
            IF v.s[1] = "builtins" THEN <<"<module 'builtins' (built-in)>">>
            ELSE <<"<module '", v.s[1], "' from '", "<path>", "'>">>
      [] v.t = "dict" -> <<"{", "<items of ", v.s[1], ">", "}">>
      [] v.t = "method" ->
            <<"<built-in method ", v.s[1], " of dict object at ", "<address>", ">">>
      [] OTHER -> <<"None">>
ReprItems(items) ==
    IF items = <<>> THEN <<>>
    ELSE IF Len(items) = 1 THEN Do("Repr", <<items[1]>>)
    ELSE Do("Repr", <<items[1]>>) \o <<", ">> \o Do("ReprItems", <<Tail(items)>>)

\* str(value)
Str(v) == IF v.t = "str" THEN v.s ELSE Do("Repr", <<v>>)

(***************************************************************************)
(* eval(), first half: the parser.  The grammar is the expression grammar  *)
(* of the host language restricted to the token alphabet:                  *)
(*   eval_input: testlist ENDMARKER                                        *)
(*   testlist:   arith (',' arith)* [',']        a comma makes a tuple     *)
(*   arith:      term (('+'|'-') term)*                                    *)
(*   term:       factor (('*'|'/'|'//'|'%') factor)*                       *)
(*   factor:     ('+'|'-') factor | power                                  *)
(*   power:      primary ['**' factor]                                     *)
(*   primary:    atom ('(' [arglist] ')' | '.' NAME)*                      *)
(*   arglist:    argument (',' argument)* [',']                            *)
(*   argument:   named | '*' arith | NAME '=' arith | '**' arith           *)
(*               no named after a keyword or a '**', no '*' after a '**',  *)
(*               no keyword twice                                          *)
(*   atom:       NUMBER | STRING+ | NAME | 'True' | '(' [items] ')'        *)
(*   items:      item (',' item)* [',']  a lone item without ',' is a      *)
(*   item:       named | '*' arith       group and cannot be starred       *)
(*   named:      arith | NAME ':=' arith                                   *)
(* A parse result is [ok, ast, pos]: pos is the next token's index.        *)
(* Syntax trees are tuples headed by their kind.                           *)
(***************************************************************************)
Tok(ts, i) == IF i <= Len(ts) THEN ts[i] ELSE "<end>"

Parsed(ast, pos) == [ok |-> TRUE, ast |-> ast, pos |-> pos]
NoParse == [ok |-> FALSE, ast |-> <<>>, pos |-> 0]

\* the first token of an expression
StartsExpr(t) ==
    IsNumber(t) \/ IsString(t) \/ IsName(t) \/ t \in {"True", "(", "+", "-"}

\* the index after a run of adjacent string literals starting at i
RECURSIVE StringsEnd(_, _)
StringsEnd(ts, i) == IF IsString(Tok(ts, i)) THEN StringsEnd(ts, i + 1) ELSE i

\* the joined contents of the string literals from i up to j
RECURSIVE Contents(_, _, _)
Contents(ts, i, j) ==
    IF i >= j THEN <<>> ELSE StringContent(ts[i]) \o Contents(ts, i + 1, j)

RECURSIVE ParseTestlist(_, _)
RECURSIVE ParseTestlistRest(_, _, _)
RECURSIVE ParseArglist(_, _, _, _)
RECURSIVE ParseItems(_, _, _, _)
RECURSIVE ParseArith(_, _)
RECURSIVE ParseArithRest(_, _, _)
RECURSIVE ParseTerm(_, _)
RECURSIVE ParseTermRest(_, _, _)
RECURSIVE ParseFactor(_, _)
RECURSIVE ParsePower(_, _)
RECURSIVE ParseTrailers(_, _, _)
RECURSIVE ParseAtom(_, _)

ParseAtom(ts, i) ==
    LET t == Tok(ts, i)
    IN  CASE IsNumber(t) -> Parsed(<<"num", t>>, i + 1)
          [] IsString(t) ->
                LET j == StringsEnd(ts, i)
                IN  Parsed(<<"str", Contents(ts, i, j)>>, j)
          [] t = "True" -> Parsed(<<"const", t>>, i + 1)
          [] IsName(t) -> Parsed(<<"name", t>>, i + 1)
          [] t = "(" ->
                IF Tok(ts, i + 1) = ")" THEN Parsed(<<"tuple", <<>>>>, i + 2)
                ELSE Do("ParseItems", <<ts, i + 1, <<>>, FALSE>>)
          [] OTHER -> NoParse

\* the items of a parenthesised form, after '(' or after a ','; comma tells
\* whether a ',' was seen
ParseItems(ts, i, items, comma) ==
    IF Tok(ts, i) = ")"
    THEN IF comma THEN Parsed(<<"tuple", items>>, i + 1) ELSE NoParse
    ELSE LET star == Tok(ts, i) = "*"
             named == IsName(Tok(ts, i)) /\ Tok(ts, i + 1) = ":="
             r == Do("ParseArith",
                     <<ts, IF star THEN i + 1 ELSE IF named THEN i + 2 ELSE i>>)
             item == IF star THEN <<"star", r.ast>>
                     ELSE IF named THEN <<"named", Tok(ts, i), r.ast>>
                     ELSE r.ast
         IN  IF ~r.ok THEN NoParse
             ELSE IF Tok(ts, r.pos) = ","
             THEN Do("ParseItems", <<ts, r.pos + 1, Append(items, item), TRUE>>)
             ELSE IF Tok(ts, r.pos) # ")" THEN NoParse
             ELSE IF comma THEN Parsed(<<"tuple", Append(items, item)>>, r.pos + 1)
             ELSE IF star THEN NoParse
             ELSE Parsed(item, r.pos + 1)

\* the keywords among arguments
Keywords_Of(args) ==
    {args[k][2] : k \in {j \in 1..Len(args) : args[j][1] = "kw"}}

\* the arguments of a call, after '(' or after a ','; ast is their
\* sequence; kw is "none", or "kw" once a keyword argument was seen, or
\* "dstar" once a '**' argument was seen
ParseArglist(ts, i, args, kw) ==
    IF Tok(ts, i) = ")" THEN Parsed(args, i + 1)
    ELSE LET t == Tok(ts, i)
             kind == CASE t = "*" -> "star"
                       [] t = "**" -> "dstar"
                       [] IsName(t) /\ Tok(ts, i + 1) = "=" -> "kw"
                       [] IsName(t) /\ Tok(ts, i + 1) = ":=" -> "named"
                       [] OTHER -> "plain"
             r == Do("ParseArith",
                     <<ts, CASE kind \in {"star", "dstar"} -> i + 1
                             [] kind \in {"kw", "named"} -> i + 2
                             [] OTHER -> i>>)
             arg == CASE kind \in {"star", "dstar"} -> <<kind, r.ast>>
                      [] kind \in {"kw", "named"} -> <<kind, t, r.ast>>
                      [] OTHER -> r.ast
             next == IF kind = "dstar" \/ kw = "dstar" THEN "dstar"
                     ELSE IF kind = "kw" THEN "kw" ELSE kw
         IN  IF ~r.ok
                \/ (kind \in {"plain", "named"} /\ kw # "none")
                \/ (kind = "star" /\ kw = "dstar")
                \/ (kind = "kw" /\ t \in Keywords_Of(args))
             THEN NoParse
             ELSE IF Tok(ts, r.pos) = ","
             THEN Do("ParseArglist", <<ts, r.pos + 1, Append(args, arg), next>>)
             ELSE IF Tok(ts, r.pos) = ")"
             THEN Parsed(Append(args, arg), r.pos + 1)
             ELSE NoParse

ParseTrailers(ts, i, ast) ==
    LET t == Tok(ts, i)
    IN  CASE t = "(" ->
                IF Tok(ts, i + 1) = "," THEN NoParse
                ELSE LET r == Do("ParseArglist", <<ts, i + 1, <<>>, "none">>)
                     IN  IF r.ok THEN Do("ParseTrailers", <<ts, r.pos, <<"call", ast, r.ast>>>>)
                         ELSE NoParse
          [] t = "." ->
                IF IsName(Tok(ts, i + 1))
                THEN Do("ParseTrailers", <<ts, i + 2, <<"attr", ast, Tok(ts, i + 1)>>>>)
                ELSE NoParse
          [] OTHER -> Parsed(ast, i)

ParsePower(ts, i) ==
    LET a == Do("ParseAtom", <<ts, i>>)
        p == IF a.ok THEN Do("ParseTrailers", <<ts, a.pos, a.ast>>) ELSE NoParse
    IN  IF p.ok /\ Tok(ts, p.pos) = "**"
        THEN LET r == Do("ParseFactor", <<ts, p.pos + 1>>)
             IN  IF r.ok THEN Parsed(<<"bin", "**", p.ast, r.ast>>, r.pos)
                 ELSE NoParse
        ELSE p

ParseFactor(ts, i) ==
    IF Tok(ts, i) \in {"+", "-"}
    THEN LET r == Do("ParseFactor", <<ts, i + 1>>)
         IN  IF r.ok THEN Parsed(<<"unary", Tok(ts, i), r.ast>>, r.pos) ELSE NoParse
    ELSE Do("ParsePower", <<ts, i>>)

ParseTermRest(ts, i, left) ==
    IF Tok(ts, i) \in {"*", "/", "//", "%"}
    THEN LET r == Do("ParseFactor", <<ts, i + 1>>)
         IN  IF r.ok
             THEN Do("ParseTermRest", <<ts, r.pos, <<"bin", Tok(ts, i), left, r.ast>>>>)
             ELSE NoParse
    ELSE Parsed(left, i)

ParseTerm(ts, i) ==
    LET r == Do("ParseFactor", <<ts, i>>)
    IN  IF r.ok THEN Do("ParseTermRest", <<ts, r.pos, r.ast>>) ELSE NoParse

\* a variant that reads the right operand of + and - as a factor
ParseArithRest_Flat(ts, i, left) ==
    IF Tok(ts, i) \in {"+", "-"}
    THEN LET r == Do("ParseFactor", <<ts, i + 1>>)
         IN  IF r.ok
             THEN Do("ParseArithRest", <<ts, r.pos, <<"bin", Tok(ts, i), left, r.ast>>>>)
             ELSE NoParse
    ELSE Parsed(left, i)

ParseArithRest(ts, i, left) ==
    IF Tok(ts, i) \in {"+", "-"}
    THEN LET r == Do("ParseTerm", <<ts, i + 1>>)
         IN  IF r.ok
             THEN Do("ParseArithRest", <<ts, r.pos, <<"bin", Tok(ts, i), left, r.ast>>>>)
             ELSE NoParse
    ELSE Parsed(left, i)

ParseArith(ts, i) ==
    LET r == Do("ParseTerm", <<ts, i>>)
    IN  IF r.ok THEN Do("ParseArithRest", <<ts, r.pos, r.ast>>) ELSE NoParse

\* after a ',' that followed the items: more items, or the end of the list
ParseTestlistRest(ts, i, items) ==
    IF ~StartsExpr(Tok(ts, i)) THEN Parsed(<<"tuple", items>>, i)
    ELSE LET r == Do("ParseArith", <<ts, i>>)
         IN  IF ~r.ok THEN NoParse
             ELSE IF Tok(ts, r.pos) = ","
             THEN Do("ParseTestlistRest", <<ts, r.pos + 1, Append(items, r.ast)>>)
             ELSE Parsed(<<"tuple", Append(items, r.ast)>>, r.pos)

ParseTestlist(ts, i) ==
    LET r == Do("ParseArith", <<ts, i>>)
    IN  IF ~r.ok THEN NoParse
        ELSE IF Tok(ts, r.pos) = ","
        THEN Do("ParseTestlistRest", <<ts, r.pos + 1, <<r.ast>>>>)
        ELSE r

\* a variant that accepts an expression followed by more tokens
ParseEval_Prefix(ts) ==
    LET r == Do("ParseTestlist", <<ts, 1>>)
    IN  IF r.ok THEN r ELSE NoParse

\* compile(expression, mode 'eval'): ok is FALSE for a SyntaxError
ParseEval(ts) ==
    LET r == Do("ParseTestlist", <<ts, 1>>)
    IN  IF r.ok /\ r.pos = Len(ts) + 1 THEN r ELSE NoParse

(***************************************************************************)
(* Arithmetic of the host language on values.  An outcome is               *)
(* [exc, val, msg]: exc is "none" or the class of the exception raised,    *)
(* msg the exception's text.                                               *)
(***************************************************************************)
Ok(v) == [exc |-> "none", val |-> v, msg |-> <<>>]
Raise(e, m) == [exc |-> e, val |-> NoneV, msg |-> m]

\* what evaluation reads and may change: the locals (allowed_names) and the
\* modules
Env(names, mods) == [names |-> names, mods |-> mods]
\* an outcome together with the environment it leaves
In(env, o) == [exc |-> o.exc, val |-> o.val, msg |-> o.msg, env |-> env]

\* a number of type "int" or "float" from a fraction
Num(t, n, d) ==
    LET f == FloatV(n, d) IN Val(t, f.n, f.d, <<>>)
Wider(a, b) == IF a.t = "float" \/ b.t = "float" THEN "float" ELSE "int"

RECURSIVE IPow(_, _)
IPow(b, k) == IF k = 0 THEN 1 ELSE b * IPow(b, k - 1)

\* Newton's iteration for the integer square root
RECURSIVE ISqrtFrom(_, _)
ISqrtFrom(x, g) ==
    LET h == (g + x \div g) \div 2
    IN  IF h >= g THEN g ELSE ISqrtFrom(x, h)
ISqrt(x) == IF x = 0 THEN 0 ELSE ISqrtFrom(x, x)
IsSquare(x) == ISqrt(x) * ISqrt(x) = x

\* the square root of n/d > 0 as a fraction <<n, d>>: exact for squares,
\* else to 1/SqrtScale of the denominator while the integers carried allow
SqrtFrac(n, d) ==
    IF IsSquare(n) /\ IsSquare(d) THEN <<ISqrt(n), ISqrt(d)>>
    ELSE LET sc == IF n * d <= 2147483647 \div (SqrtScale * SqrtScale)
                   THEN SqrtScale ELSE 1
         IN  <<ISqrt(n * d * sc * sc), d * sc>>

RECURSIVE SqrtTimes(_, _, _)
SqrtTimes(n, d, k) ==
    IF k = 0 THEN <<n, d>>
    ELSE LET r == Do("SqrtFrac", <<n, d>>)
             g == Gcd(r[1], r[2])
         IN  Do("SqrtTimes", <<r[1] \div g, r[2] \div g, k - 1>>)

RECURSIVE Log2(_)
Log2(q) == IF q <= 1 THEN 0 ELSE 1 + Log2(q \div 2)
IsPowerOf2(q) == IPow(2, Log2(q)) = q

\* (n/d) ** k for an integer k, n # 0 when k < 0
FracPow(n, d, k) ==
    IF k >= 0 THEN <<IPow(n, k), IPow(d, k)>>
    ELSE <<IPow(d, -k), IPow(n, -k)>>

\* x ** (p/q) for x = n/d > 0 and q > 1, as x ** floor(p/q) times a root
\* of x: the 2^k-th root when the exponent's fraction is 1/2^k, else the
\* square root
RootPow(n, d, p, q) ==
    LET fl == p \div q
        w == Do("FracPow", <<n, d, fl>>)
        r == IF p - fl * q = 1 /\ IsPowerOf2(q) THEN Do("SqrtTimes", <<n, d, Log2(q)>>)
             ELSE Do("SqrtTimes", <<n, d, 1>>)
    IN  <<w[1] * r[1], w[2] * r[2]>>

ZeroPowMsg == <<"0.0 cannot be raised to a negative power">>
DivZeroMsg(op, a, b) ==
    IF a.t = "complex" \/ b.t = "complex" THEN <<"complex division by zero">>
    ELSE IF a.t = "float" \/ b.t = "float"
    THEN CASE op = "/" -> <<"float division by zero">>
           [] op = "//" -> <<"float floor division by zero">>
           [] op = "%" -> <<"float modulo">>
    ELSE CASE op = "/" -> <<"division by zero">>
           [] op = "//" -> <<"integer division or modulo by zero">>
           [] op = "%" -> <<"integer modulo by zero">>

\* floor(a / b) for fractions a, b, b # 0
FloorDiv(a, b) ==
    LET num == a.n * b.d
        den == a.d * b.n
    IN  IF den < 0 THEN (-num) \div (-den) ELSE num \div den

UnsupportedMsg(op, a, b) ==
    <<"unsupported operand type(s) for ",
      IF op = "**" THEN "** or pow()" ELSE op,
      ": '", TypeName(a), "' and '", TypeName(b), "'">>

\* a ** b on int, bool and float
PowReal(a, b) ==
    IF b.d = 1
    THEN IF a.n = 0 /\ b.n < 0 THEN Raise("ZeroDivisionError", ZeroPowMsg)
         ELSE LET r == Do("FracPow", <<a.n, a.d, b.n>>)
                  t == IF Wider(a, b) = "int" /\ b.n >= 0 THEN "int" ELSE "float"
              IN  Ok(Num(t, r[1], r[2]))
    ELSE IF a.n < 0 THEN Ok(ComplexV)
    ELSE IF a.n = 0
    THEN IF b.n < 0 THEN Raise("ZeroDivisionError", ZeroPowMsg)
         ELSE Ok(FloatV(0, 1))
    ELSE LET r == Do("RootPow", <<a.n, a.d, b.n, b.d>>) IN Ok(FloatV(r[1], r[2]))

RECURSIVE Repeat(_, _)
Repeat(items, k) == IF k <= 0 THEN <<>> ELSE items \o Repeat(items, k - 1)

IsIntLike(v) == v.t \in {"int", "bool"}
IsSeq(v) == v.t \in {"str", "tuple"}

\* the binary operators + - * / // % **
BinOp(op, a, b) ==
    IF IsReal(a) /\ IsReal(b)
    THEN CASE op = "+" -> Ok(Num(Wider(a, b), a.n * b.d + b.n * a.d, a.d * b.d))
           [] op = "-" -> Ok(Num(Wider(a, b), a.n * b.d - b.n * a.d, a.d * b.d))
           [] op = "*" -> Ok(Num(Wider(a, b), a.n * b.n, a.d * b.d))
           [] op \in {"/", "//", "%"} /\ b.n = 0 ->
                 Raise("ZeroDivisionError", DivZeroMsg(op, a, b))
           [] op = "/" -> Ok(FloatV(a.n * b.d, a.d * b.n))
           [] op = "//" -> Ok(Num(Wider(a, b), FloorDiv(a, b), 1))
           [] op = "%" ->
                 Ok(Num(Wider(a, b),
                        a.n * b.d - b.n * FloorDiv(a, b) * a.d, a.d * b.d))
           [] op = "**" -> Do("PowReal", <<a, b>>)
    ELSE IF IsNumeric(a) /\ IsNumeric(b)
    THEN IF op \in {"//", "%"} THEN Raise("TypeError", UnsupportedMsg(op, a, b))
         ELSE IF op = "/" /\ IsReal(b) /\ b.n = 0
         THEN Raise("ZeroDivisionError", DivZeroMsg(op, a, b))
         ELSE Ok(ComplexV)
    ELSE IF op = "%" /\ a.t = "str"
    THEN IF b.t = "tuple" /\ b.s = <<>> THEN Ok(a)
         ELSE Raise("TypeError",
                    <<"not all arguments converted during string formatting">>)
    ELSE IF op = "+" /\ IsSeq(a)
    THEN IF b.t = a.t THEN Ok(Val(a.t, 0, 1, a.s \o b.s))
         ELSE Raise("TypeError",
                    <<"can only concatenate ", a.t, " (not \"", TypeName(b),
                      "\") to ", a.t>>)
    ELSE IF op = "*" /\ IsSeq(a) /\ IsIntLike(b)
    THEN Ok(Val(a.t, 0, 1, Repeat(a.s, b.n)))
    ELSE IF op = "*" /\ IsIntLike(a) /\ IsSeq(b)
    THEN Ok(Val(b.t, 0, 1, Repeat(b.s, a.n)))
    ELSE IF op = "*" /\ (IsSeq(a) \/ IsSeq(b))
    THEN Raise("TypeError",
               <<"can't multiply sequence by non-int of type '",
                 TypeName(IF IsSeq(a) THEN b ELSE a), "'">>)
    ELSE Raise("TypeError", UnsupportedMsg(op, a, b))

\* the unary operators + -
UnaryOp(op, a) ==
    IF IsReal(a)
    THEN Ok(Num(IF a.t = "float" THEN "float" ELSE "int",
                IF op = "-" THEN -a.n ELSE a.n, a.d))
    ELSE IF a.t = "complex" THEN Ok(ComplexV)
    ELSE Raise("TypeError",
               <<"bad operand type for unary ", op, ": '", TypeName(a), "'">>)

\* the module a builtin function belongs to
Home(f) ==
    IF Len(f.s) = 2 THEN f.s[2]
    ELSE IF f.s[1] \in MathNames THEN "math"
    ELSE "builtins"

\* obj.name, the modules holding mods: a function's __self__ is its module,
\* a module's attributes are the entries of its __dict__, and that dict has
\* the method update
GetAttr(a, name, mods) ==
    IF a.t = "func" /\ name = "__self__" THEN Ok(ModuleV(Home(a)))
    ELSE IF a.t = "method" /\ name = "__self__" THEN Ok(DictV(a.s[2]))
    ELSE IF a.t = "module" /\ name = "__dict__" THEN Ok(DictV(a.s[1]))
    ELSE IF a.t = "module"
    THEN IF name \in DOMAIN mods[a.s[1]] THEN Ok(mods[a.s[1]][name])
         ELSE Raise("AttributeError",
                    <<"module '", a.s[1], "' has no attribute '", name, "'">>)
    ELSE IF a.t = "dict" /\ name = "update" THEN Ok(UpdateV(a.s[1]))
    ELSE IF name = "real" /\ IsNumeric(a)
    THEN Ok(IF a.t = "complex" THEN FloatV(0, 1)
            ELSE IF a.t = "bool" THEN IntV(a.n) ELSE a)
    ELSE IF name = "imag" /\ IsNumeric(a)
    THEN Ok(IF a.t \in {"float", "complex"} THEN FloatV(0, 1) ELSE IntV(0))
    ELSE Raise("AttributeError",
               <<"'", TypeName(a), "' object has no attribute '", name, "'">>)

(***************************************************************************)
(* The functions of allowed_names.                                         *)
(***************************************************************************)
\* == on values; values of unlike types are unequal
RECURSIVE PyEq(_, _)
PyEq(a, b) ==
    IF IsReal(a) /\ IsReal(b) THEN a.n * b.d = b.n * a.d
    ELSE IF a.t = "str" /\ b.t = "str" THEN a.s = b.s
    ELSE IF a.t = "tuple" /\ b.t = "tuple"
    THEN /\ Len(a.s) = Len(b.s)
         /\ \A i \in 1..Len(a.s) : Do("PyEq", <<a.s[i], b.s[i]>>)
    ELSE IF a.t = "func" /\ b.t = "func" THEN a.s = b.s
    ELSE FALSE

\* the characters of a piece of a str
CharsOf(piece) ==
    IF piece = DivisionText
    THEN <<"E", "r", "r", "o", "r", ":", " ", "D", "i", "v", "i", "s", "i",
           "o", "n", " ", "b", "y", " ", "z", "e", "r", "o", " ", "i", "s",
           " ", "n", "o", "t", " ", "a", "l", "l", "o", "w", "e", "d">>
    ELSE <<piece>>
\* the characters of a str
RECURSIVE Chars(_)
Chars(pieces) ==
    IF pieces = <<>> THEN <<>> ELSE CharsOf(pieces[1]) \o Chars(Tail(pieces))
\* the code point of a character
Ord(c) ==
    CASE c = " " -> 32 [] c = ":" -> 58 [] c = "D" -> 68 [] c = "E" -> 69
      [] c = "a" -> 97 [] c = "b" -> 98 [] c = "d" -> 100 [] c = "e" -> 101
      [] c = "i" -> 105 [] c = "l" -> 108 [] c = "n" -> 110 [] c = "o" -> 111
      [] c = "r" -> 114 [] c = "s" -> 115 [] c = "t" -> 116 [] c = "v" -> 118
      [] c = "w" -> 119 [] c = "y" -> 121 [] c = "z" -> 122
\* whether the characters x come before the characters y
RECURSIVE CharsLess(_, _)
CharsLess(x, y) ==
    IF y = <<>> THEN FALSE
    ELSE IF x = <<>> THEN TRUE
    ELSE IF x[1] = y[1] THEN CharsLess(Tail(x), Tail(y))
    ELSE Ord(x[1]) < Ord(y[1])

\* a < b: "lt", "ge", or "error" where the types are not ordered
RECURSIVE PyLess(_, _)
PyLess(a, b) ==
    IF IsReal(a) /\ IsReal(b)
    THEN IF a.n * b.d < b.n * a.d THEN "lt" ELSE "ge"
    ELSE IF a.t = "str" /\ b.t = "str"
    THEN IF CharsLess(Chars(a.s), Chars(b.s)) THEN "lt" ELSE "ge"
    ELSE IF a.t = "tuple" /\ b.t = "tuple"
    THEN LET m == IF Len(a.s) < Len(b.s) THEN Len(a.s) ELSE Len(b.s)
             diff == {i \in 1..m : ~Do("PyEq", <<a.s[i], b.s[i]>>)}
         IN  IF diff = {}
             THEN IF Len(a.s) < Len(b.s) THEN "lt" ELSE "ge"
             ELSE LET i == CHOOSE i \in diff : \A j \in diff : i <= j
                  IN  Do("PyLess", <<a.s[i], b.s[i]>>)
    ELSE "error"

\* min or max over the items, left to right, keeping the first best
RECURSIVE Best(_, _, _)
Best(name, best, items) ==
    IF items = <<>> THEN Ok(best)
    ELSE LET x == items[1]
             c == IF name = "min" THEN Do("PyLess", <<x, best>>) ELSE Do("PyLess", <<best, x>>)
         IN  IF c = "error"
             THEN Raise("TypeError",
                        <<"'", IF name = "min" THEN "<" ELSE ">",
                          "' not supported between instances of '",
                          TypeName(x), "' and '", TypeName(best), "'">>)
             ELSE Do("Best", <<name, IF c = "lt" THEN x ELSE best, Tail(items)>>)

\* the items iterating over a value yields
Iterate(v) ==
    IF v.t = "str" THEN [i \in 1..Len(Chars(v.s)) |-> StrV(<<Chars(v.s)[i]>>)]
    ELSE v.s

MinMax(name, args) ==
    IF Len(args) = 0
    THEN Raise("TypeError", <<name, " expected at least 1 argument, got 0">>)
    ELSE IF Len(args) = 1
    THEN IF ~IsSeq(args[1])
         THEN Raise("TypeError",
                    <<"'", TypeName(args[1]), "' object is not iterable">>)
         ELSE IF Len(args[1].s) = 0
         THEN Raise("ValueError", <<name, "() arg is an empty sequence">>)
         ELSE Do("Best", <<name, Iterate(args[1])[1], Tail(Iterate(args[1]))>>)
    ELSE Do("Best", <<name, args[1], Tail(args)>>)

\* n/d rounded to an integer, halves to the even neighbour
RoundHalfEven(n, d) ==
    LET fl == n \div d
        rem == n - fl * d
    IN  IF 2 * rem < d THEN fl
        ELSE IF 2 * rem > d THEN fl + 1
        ELSE IF fl % 2 = 0 THEN fl ELSE fl + 1

Round(args) ==
    IF Len(args) = 0
    THEN Raise("TypeError",
               <<"round() missing required argument 'number' (pos 1)">>)
    ELSE IF Len(args) > 2
    THEN Raise("TypeError",
               <<"round() takes at most 2 arguments (">> \o Digits(Len(args))
                 \o <<" given)">>)
    ELSE IF ~IsReal(args[1])
    THEN Raise("TypeError",
               <<"type ", TypeName(args[1]), " doesn't define __round__ method">>)
    ELSE IF Len(args) = 1
    THEN Ok(IntV(RoundHalfEven(args[1].n, args[1].d)))
    ELSE IF ~IsIntLike(args[2])
    THEN Raise("TypeError",
               <<"'", TypeName(args[2]),
                 "' object cannot be interpreted as an integer">>)
    ELSE LET x == args[1]
             k == args[2].n
             t == IF x.t = "float" THEN "float" ELSE "int"
         IN  IF k >= 0
             THEN Ok(Num(t, RoundHalfEven(x.n * IPow(10, k), x.d), IPow(10, k)))
             ELSE Ok(Num(t, RoundHalfEven(x.n, x.d * IPow(10, -k)) * IPow(10, -k), 1))

NotAllIntMsg ==
    <<"pow() 3rd argument not allowed unless all arguments are integers">>

\* pow(a, b, c) on integers
PowMod(a, b, c) ==
    LET m == Abs(c)
        inv == {x \in 0..(m - 1) : (a * x) % m = 1 % m}
    IN  IF c = 0 THEN Raise("ValueError", <<"pow() 3rd argument cannot be 0">>)
        ELSE IF b < 0 /\ inv = {}
        THEN Raise("ValueError",
                   <<"base is not invertible for the given modulus">>)
        ELSE LET base == IF b < 0 THEN CHOOSE x \in inv : TRUE ELSE a
                 r == IPow(base, Abs(b)) % m
             IN  Ok(IntV(IF c < 0 /\ r # 0 THEN r + c ELSE r))

Pow(args) ==
    IF Len(args) < 2
    THEN Raise("TypeError",
               <<"pow() missing required argument ",
                 IF Len(args) = 0 THEN "'base' (pos 1)" ELSE "'exp' (pos 2)">>)
    ELSE IF Len(args) > 3
    THEN Raise("TypeError",
               <<"pow() takes at most 3 arguments (">> \o Digits(Len(args))
                 \o <<" given)">>)
    ELSE IF Len(args) = 2 THEN Do("BinOp", <<"**", args[1], args[2]>>)
    ELSE IF \A i \in 1..3 : IsIntLike(args[i])
    THEN Do("PowMod", <<args[1].n, args[2].n, args[3].n>>)
    ELSE IF \A i \in 1..3 : IsNumeric(args[i])
    THEN Raise("TypeError", NotAllIntMsg)
    ELSE Raise("TypeError",
               <<"unsupported operand type(s) for pow(): '", TypeName(args[1]),
                 "', '", TypeName(args[2]), "', '", TypeName(args[3]), "'">>)

OneArgMsg(name, k) ==
    <<name, "() takes exactly one argument (">> \o Digits(k) \o <<" given)">>

AbsFn(args) ==
    IF Len(args) # 1 THEN Raise("TypeError", OneArgMsg("abs", Len(args)))
    ELSE IF IsReal(args[1])
    THEN Ok(Num(IF args[1].t = "float" THEN "float" ELSE "int",
                Abs(args[1].n), args[1].d))
    ELSE IF args[1].t = "complex" THEN Ok(FloatV(1, 1))
    ELSE Raise("TypeError",
               <<"bad operand type for abs(): '", TypeName(args[1]), "'">>)

\* sin, cos and tan by the first terms of their series; exact at 0
Series(name, n, d) ==
    CASE name = "sin" -> <<6 * n * d * d - n * n * n, 6 * d * d * d>>
      [] name = "cos" -> <<2 * d * d - n * n, 2 * d * d>>
      [] name = "tan" -> <<3 * n * d * d + n * n * n, 3 * d * d * d>>

\* math.sqrt, math.sin, math.cos, math.tan
MathFn(name, args) ==
    IF Len(args) # 1
    THEN Raise("TypeError", <<"math.">> \o OneArgMsg(name, Len(args)))
    ELSE IF ~IsReal(args[1])
    THEN Raise("TypeError", <<"must be real number, not ", TypeName(args[1])>>)
    ELSE IF name = "sqrt"
    THEN IF args[1].n < 0 THEN Raise("ValueError", <<"math domain error">>)
         ELSE IF args[1].n = 0 THEN Ok(FloatV(0, 1))
         ELSE LET r == Do("SqrtFrac", <<args[1].n, args[1].d>>) IN Ok(FloatV(r[1], r[2]))
    ELSE LET r == Series(name, args[1].n, args[1].d) IN Ok(FloatV(r[1], r[2]))

\* math.pow: the power of two reals as a float
MathPow(args) ==
    IF Len(args) # 2
    THEN Raise("TypeError",
               <<"pow expected 2 arguments, got ">> \o Digits(Len(args)))
    ELSE IF ~IsReal(args[1])
    THEN Raise("TypeError", <<"must be real number, not ", TypeName(args[1])>>)
    ELSE IF ~IsReal(args[2])
    THEN Raise("TypeError", <<"must be real number, not ", TypeName(args[2])>>)
    ELSE LET r == Do("PowReal", <<Num("float", args[1].n, args[1].d),
                                  Num("float", args[2].n, args[2].d)>>)
         IN  IF r.exc # "none" \/ r.val.t = "complex"
             THEN Raise("ValueError", <<"math domain error">>)
             ELSE r

\* __import__: no module of the names the model's strings spell exists
Import(args) ==
    IF Len(args) = 0
    THEN Raise("TypeError",
               <<"__import__() missing required argument 'name' (pos 1)">>)
    ELSE IF Len(args) > 5
    THEN Raise("TypeError",
               <<"__import__() takes at most 5 arguments (">>
                 \o Digits(Len(args)) \o <<" given)">>)
    ELSE IF args[1].t # "str"
    THEN Raise("TypeError", <<"module name must be a string">>)
    ELSE Raise("ModuleNotFoundError",
               <<"No module named '">> \o args[1].s \o <<"'">>)

\* a builtin function called with keyword arguments kw, a sequence of
\* <<name, value>>; none of the model's identifiers is a keyword that a
\* function of the model accepts
KeywordError(f, args, kw) ==
    LET name == f.s[1]
        total == Len(args) + Len(kw)
        invalid == <<"'", kw[1][1], "' is an invalid keyword argument for ",
                     name, "()">>
        most(k) == <<name, "() takes at most ">> \o Digits(k)
                     \o <<" arguments (">> \o Digits(total) \o <<" given)">>
        missing(arg, k) == <<name, "() missing required argument '", arg,
                             "' (pos ">> \o Digits(k) \o <<")">>
    IN  Raise("TypeError",
              CASE Home(f) = "math" \/ name = "abs" ->
                       (IF Home(f) = "math" THEN <<"math.">> ELSE <<>>)
                         \o <<name, "() takes no keyword arguments">>
                [] name \in {"min", "max"} ->
                       IF Len(args) = 0
                       THEN <<name, " expected at least 1 argument, got 0">>
                       ELSE invalid
                [] name = "round" ->
                       IF total > 2 THEN most(2)
                       ELSE IF Len(args) = 0 THEN missing("number", 1)
                       ELSE invalid
                [] name = "pow" ->
                       IF total > 3 THEN most(3)
                       ELSE IF Len(args) = 0 THEN missing("base", 1)
                       ELSE IF Len(args) = 1 THEN missing("exp", 2)
                       ELSE invalid
                [] OTHER ->
                       IF total > 5 THEN most(5)
                       ELSE IF Len(args) = 0 THEN missing("name", 1)
                       ELSE invalid)

\* the namespace ns with the keyword arguments kw stored in it, in order
RECURSIVE Store(_, _)
Store(ns, kw) ==
    IF kw = <<>> THEN ns
    ELSE Store([n \in DOMAIN ns \cup {kw[1][1]} |->
                   IF n = kw[1][1] THEN kw[1][2] ELSE ns[n]],
               Tail(kw))

\* the first element of a dictionary update sequence that is no pair, from
\* index k; 0 when every element is one
RECURSIVE BadElement(_, _)
BadElement(items, k) ==
    IF k > Len(items) THEN 0
    ELSE IF IsSeq(items[k]) /\ Len(Iterate(items[k])) = 2
            /\ Iterate(items[k])[1].t # "dict"
    THEN BadElement(items, k + 1)
    ELSE k

\* dict.update of the __dict__ of module m: the entries of the positional
\* argument, then the keyword arguments.  The keys a sequence of pairs can
\* spell are no identifiers of the model.
Update(m, args, kw, env) ==
    IF Len(args) > 1
    THEN In(env, Raise("TypeError",
                       <<"update expected at most 1 argument, got ">>
                         \o Digits(Len(args))))
    ELSE IF Len(args) = 1 /\ args[1].t # "dict" /\ ~IsSeq(args[1])
    THEN In(env, Raise("TypeError",
                       <<"'", TypeName(args[1]), "' object is not iterable">>))
    ELSE IF Len(args) = 1 /\ IsSeq(args[1])
            /\ BadElement(Iterate(args[1]), 1) # 0
    THEN LET k == BadElement(Iterate(args[1]), 1)
             el == Iterate(args[1])[k]
         IN  In(env,
                IF ~IsSeq(el)
                THEN Raise("TypeError",
                           <<"cannot convert dictionary update sequence element #">>
                             \o Digits(k - 1) \o <<" to a sequence">>)
                ELSE IF Len(Iterate(el)) # 2
                THEN Raise("ValueError",
                           <<"dictionary update sequence element #">>
                             \o Digits(k - 1) \o <<" has length ">>
                             \o Digits(Len(Iterate(el))) \o <<"; 2 is required">>)
                ELSE Raise("TypeError", <<"unhashable type: 'dict'">>))
    ELSE LET merged == IF Len(args) = 1 /\ args[1].t = "dict"
                       THEN [n \in DOMAIN env.mods[m]
                                      \cup DOMAIN env.mods[args[1].s[1]] |->
                                IF n \in DOMAIN env.mods[args[1].s[1]]
                                THEN env.mods[args[1].s[1]][n]
                                ELSE env.mods[m][n]]
                       ELSE env.mods[m]
             mods == [env.mods EXCEPT ![m] = Store(merged, kw)]
         IN  In(Env(env.names, mods), Ok(NoneV))

\* f(args, kw): args the positional arguments, kw the keyword arguments as
\* a sequence of <<name, value>>
Call(f, args, kw, env) ==
    IF f.t = "method" THEN Do("Update", <<f.s[2], args, kw, env>>)
    ELSE IF f.t # "func"
    THEN In(env, Raise("TypeError",
                       <<"'", TypeName(f), "' object is not callable">>))
    ELSE IF kw # <<>> THEN In(env, KeywordError(f, args, kw))
    ELSE In(env,
            CASE f.s[1] = "abs" -> Do("AbsFn", <<args>>)
              [] f.s[1] = "round" -> Do("Round", <<args>>)
              [] f.s[1] \in {"min", "max"} -> Do("MinMax", <<f.s[1], args>>)
              [] f = MathPowV -> MathPow(args)
              [] f.s[1] = "pow" -> Do("Pow", <<args>>)
              [] f.s[1] = "__import__" -> Import(args)
              [] OTHER -> Do("MathFn", <<f.s[1], args>>))

\* the namespaces of the modules math and builtins as the process starts;
\* they are shared by every call made in the process
InitialModules ==
    [math |-> [n \in MathNames \cup {"pow"} |->
                  CASE n = "pi" -> FloatV(22, 7)
                    [] n = "e" -> FloatV(19, 7)
                    [] n = "pow" -> MathPowV
                    [] OTHER -> FuncV(n)],
     builtins |-> [n \in safe_builtins \cup {"__import__"} |-> FuncV(n)]]

\* lesson_02_first_tool.py:83-97: allowed_names, built anew by each call from
\* what the modules hold then
BuildNames(mods) ==
    [n \in {b \in safe_builtins : b \in DOMAIN mods.builtins} \cup MathNames |->
        IF n \in MathNames THEN mods.math[n] ELSE mods.builtins[n]]

(***************************************************************************)
(* eval(), second half: the evaluation of a syntax tree, operands left to  *)
(* right, stopping at the first exception.  globals hold an empty          *)
(* __builtins__, locals are allowed_names.                                 *)
(***************************************************************************)
RECURSIVE Eval(_, _)
RECURSIVE EvalAll(_, _, _)
RECURSIVE EvalCall(_, _, _)
RECURSIVE EvalKeywords(_, _, _, _)

\* how messages name the object called
FunctionStr(f) ==
    IF f.t = "method" THEN <<"dict.", f.s[1], "()">>
    ELSE IF f.t # "func" THEN Do("Str", <<f>>)
    ELSE IF Home(f) = "math" THEN <<"math.", f.s[1], "()">>
    ELSE <<f.s[1], "()">>

\* the elements of a set of names in some order
RECURSIVE SetSeq(_)
SetSeq(S) ==
    IF S = {} THEN <<>>
    ELSE LET x == CHOOSE x \in S : TRUE IN <<x>> \o SetSeq(S \ {x})

\* the keyword arguments of a call to f, in order: name=value gives one, a
\* '**' argument the entries of a mapping, which only the __dict__ of a
\* module is.  The value is the sequence of <<name, value>>.
EvalKeywords(kws, done, f, env) ==
    IF kws = <<>> THEN In(env, Ok(Val("kwargs", 0, 1, done)))
    ELSE LET dstar == kws[1][1] = "dstar"
             o == Do("Eval", <<IF dstar THEN kws[1][2] ELSE kws[1][3], env>>)
             new == IF dstar
                    THEN LET ns == o.env.mods[o.val.s[1]]
                         IN  [k \in 1..Cardinality(DOMAIN ns) |->
                                 <<SetSeq(DOMAIN ns)[k], ns[SetSeq(DOMAIN ns)[k]]>>]
                    ELSE <<<<kws[1][2], o.val>>>>
             seen == {done[k][1] : k \in 1..Len(done)}
             twice == {k \in 1..Len(new) : new[k][1] \in seen}
         IN  IF o.exc # "none" THEN o
             ELSE IF dstar /\ o.val.t # "dict"
             THEN In(o.env,
                     Raise("TypeError",
                           Do("FunctionStr", <<f>>)
                             \o <<" argument after ** must be a mapping, not ",
                                  TypeName(o.val)>>))
             ELSE IF twice # {}
             THEN In(o.env,
                     Raise("TypeError",
                           Do("FunctionStr", <<f>>)
                             \o <<" got multiple values for keyword argument '",
                                  new[CHOOSE k \in twice : TRUE][1], "'">>))
             ELSE Do("EvalKeywords", <<Tail(kws), done \o new, f, o.env>>)

\* the values of the items, as a tuple value; a starred item is unpacked
EvalAll(asts, done, env) ==
    IF asts = <<>> THEN In(env, Ok(TupleV(done)))
    ELSE LET star == asts[1][1] = "star"
             o == Do("Eval", <<IF star THEN asts[1][2] ELSE asts[1], env>>)
         IN  IF o.exc # "none" THEN o
             ELSE IF ~star
             THEN Do("EvalAll", <<Tail(asts), Append(done, o.val), o.env>>)
             ELSE IF ~IsSeq(o.val)
             THEN In(o.env, Raise("TypeError",
                                  <<"Value after * must be an iterable, not ",
                                    TypeName(o.val)>>))
             ELSE Do("EvalAll", <<Tail(asts), done \o Iterate(o.val), o.env>>)

\* a call with arguments args, the function already evaluated to f: the
\* positional arguments, then the keyword arguments, then the call.  A
\* lone starred argument is unpacked only at the call.
EvalCall(f, args, env) ==
    LET pos == SelectSeq(args, LAMBDA a : a[1] \notin {"kw", "dstar"})
        kws == SelectSeq(args, LAMBDA a : a[1] \in {"kw", "dstar"})
        lone == Len(pos) = 1 /\ pos[1][1] = "star"
        p == IF lone THEN Do("Eval", <<pos[1][2], env>>)
             ELSE Do("EvalAll", <<pos, <<>>, env>>)
    IN  IF p.exc # "none" THEN p
        ELSE LET k == Do("EvalKeywords", <<kws, <<>>, f, p.env>>)
             IN  IF k.exc # "none" THEN k
                 ELSE IF lone /\ ~IsSeq(p.val)
                 THEN In(k.env,
                         Raise("TypeError",
                               Do("FunctionStr", <<f>>)
                                 \o <<" argument after * must be an iterable, not ",
                                      TypeName(p.val)>>))
                 ELSE Do("Call", <<f, IF lone THEN Iterate(p.val) ELSE p.val.s,
                                   k.val.s, k.env>>)

Eval(ast, env) ==
    CASE ast[1] = "num" -> In(env, Ok(NumberValue(ast[2])))
      [] ast[1] = "str" -> In(env, Ok(StrV(ast[2])))
      [] ast[1] = "const" -> In(env, Ok(BoolV(TRUE)))
      [] ast[1] = "name" ->
            IF ast[2] \in DOMAIN env.names THEN In(env, Ok(env.names[ast[2]]))
            ELSE In(env, Raise("NameError", <<"name '", ast[2], "' is not defined">>))
      [] ast[1] = "unary" ->
            LET a == Do("Eval", <<ast[3], env>>)
            IN  IF a.exc # "none" THEN a
                ELSE In(a.env, Do("UnaryOp", <<ast[2], a.val>>))
      [] ast[1] = "bin" ->
            LET a == Do("Eval", <<ast[3], env>>)
            IN  IF a.exc # "none" THEN a
                ELSE LET b == Do("Eval", <<ast[4], a.env>>)
                     IN  IF b.exc # "none" THEN b
                         ELSE In(b.env, Do("BinOp", <<ast[2], a.val, b.val>>))
      [] ast[1] = "attr" ->
            LET a == Do("Eval", <<ast[2], env>>)
            IN  IF a.exc # "none" THEN a
                ELSE In(a.env, Do("GetAttr", <<a.val, ast[3], a.env.mods>>))
      [] ast[1] = "call" ->
            LET f == Do("Eval", <<ast[2], env>>)
            IN  IF f.exc # "none" THEN f
                ELSE Do("EvalCall", <<f.val, ast[3], f.env>>)
      [] ast[1] = "tuple" -> Do("EvalAll", <<ast[2], <<>>, env>>)
      [] ast[1] = "named" ->
            \* NAME := value stores the value in the locals
            LET a == Do("Eval", <<ast[3], env>>)
            IN  IF a.exc # "none" THEN a
                ELSE In(Env([n \in DOMAIN a.env.names \cup {ast[2]} |->
                                IF n = ast[2] THEN a.val ELSE a.env.names[n]],
                            a.env.mods),
                        Ok(a.val))

\* eval(expression, {"__builtins__": {}}, allowed_names)
PyEval(ts, env) ==
    LET p == Do("ParseEval", <<ts>>)
    IN  IF ~p.ok THEN In(env, Raise("SyntaxError", <<"invalid syntax">>))
        ELSE Do("Eval", <<p.ast, env>>)

(***************************************************************************)
(* calculator(expression), lesson_02_first_tool.py:56-114.                 *)
(***************************************************************************)
\* the classes an exception of class exc is an instance of
Bases(exc) ==
    CASE exc = "ZeroDivisionError" -> {exc, "ArithmeticError", "Exception"}
      [] exc = "OverflowError" -> {exc, "ArithmeticError", "Exception"}
      [] OTHER -> {exc, "Exception"}

\* a variant with the generic clause written first
ExceptClauses_GenericFirst ==
    <<"Exception", "ZeroDivisionError", "SyntaxError", "NameError">>

\* lines 107-114: the except clauses, in the order written
ExceptClauses == <<"ZeroDivisionError", "SyntaxError", "NameError", "Exception">>

\* the first except clause that matches the exception
RECURSIVE FirstMatch(_, _)
FirstMatch(clauses, exc) ==
    IF clauses = <<>> THEN "unhandled"
    ELSE IF clauses[1] \in Bases(exc) THEN clauses[1]
    ELSE Do("FirstMatch", <<Tail(clauses), exc>>)

\* a variant that returns the default text of every value
FormatResult_Default(v) == Do("Str", <<v>>)

\* lines 102-105: the result formatted
FormatResult(v) ==
    IF v.t = "float" /\ is_integer(v) THEN Do("IntText", <<v.n>>) ELSE Do("Str", <<v>>)

\* a variant whose NameError clause leaves the expression out
ErrorMessage_NameWithoutExpr(clause, expr, msg) ==
    CASE clause = "ZeroDivisionError" ->
            <<"Error: Division by zero is not allowed">>
      [] clause = "SyntaxError" ->
            <<"Error: Invalid mathematical expression '">> \o expr \o <<"'">>
      [] clause = "NameError" ->
            <<"Error: Unknown function or variable in '">> \o <<"'">>
      [] clause = "Exception" ->
            <<"Error: Could not evaluate '">> \o expr \o <<"' - ">> \o msg

\* a variant whose NameError clause appends the exception's text
ErrorMessage_NameWithText(clause, expr, msg) ==
    CASE clause = "ZeroDivisionError" ->
            <<"Error: Division by zero is not allowed">>
      [] clause = "SyntaxError" ->
            <<"Error: Invalid mathematical expression '">> \o expr \o <<"'">>
      [] clause = "NameError" ->
            <<"Error: Unknown function or variable in '">> \o expr \o <<"' - ">>
               \o msg
      [] clause = "Exception" ->
            <<"Error: Could not evaluate '">> \o expr \o <<"' - ">> \o msg

\* lines 107-114: the message of each except clause
ErrorMessage(clause, expr, msg) ==
    CASE clause = "ZeroDivisionError" -> <<DivisionText>>
      [] clause = "SyntaxError" ->
            <<"Error: Invalid mathematical expression '">> \o expr \o <<"'">>
      [] clause = "NameError" ->
            <<"Error: Unknown function or variable in '">> \o expr \o <<"'">>
      [] clause = "Exception" ->
            <<"Error: Could not evaluate '">> \o expr \o <<"' - ">> \o msg

\* lines 100-114, the call once allowed_names is built: [text, handler,
\* names, mods], handler the clause that returned ("return" for the try
\* block's own return), names and mods the locals and the modules as the
\* evaluation leaves them
Evaluate(expr, names, mods) ==
    LET o == Do("PyEval", <<expr, Env(names, mods)>>)
    IN  IF o.exc = "none"
        THEN [text |-> Do("FormatResult", <<o.val>>), handler |-> "return",
              names |-> o.env.names, mods |-> o.env.mods]
        ELSE LET c == Do("FirstMatch", <<ExceptClauses, o.exc>>)
             IN  [text |-> Do("ErrorMessage", <<c, expr, o.msg>>), handler |-> c,
                  names |-> o.env.names, mods |-> o.env.mods]

\* the whole call, the modules holding mods as it starts
calculator(expr, mods) == Evaluate(expr, BuildNames(mods), mods)

(***************************************************************************)
(* create_working_model(lesson_name), lesson_utils.py:99-251.              *)
(* A lesson name is a sequence of words, each a run of characters.  The    *)
(* environment is what the function reads: which provider packages were    *)
(* importable (lines 50-79), the API keys of the process environment, and  *)
(* what the Bedrock and Ollama probes meet.                                *)
(***************************************************************************)
DEFAULT_MAX_TOKENS == 500
DEFAULT_TEMPERATURE == "0.7"
OPENAI_MODEL == "gpt-4o-mini"
ANTHROPIC_MODEL == "claude-3-5-haiku-20241022"
GEMINI_MODEL == "gemini-2.0-flash"
BEDROCK_MODEL == "amazon.nova-lite-v1:0"

Words ==
    {"demo", "Demo", "de", "mo", "creative", "CREATIVE", "precise", "tool",
     "multiagent", " "}
\* the characters of a word
Spell(w) ==
    CASE w = "demo" -> <<"d", "e", "m", "o">>
      [] w = "Demo" -> <<"D", "e", "m", "o">>
      [] w = "de" -> <<"d", "e">>
      [] w = "mo" -> <<"m", "o">>
      [] w = "demonstration" ->
            <<"d", "e", "m", "o", "n", "s", "t", "r", "a", "t", "i", "o", "n">>
      [] w = "creative" -> <<"c", "r", "e", "a", "t", "i", "v", "e">>
      [] w = "CREATIVE" -> <<"C", "R", "E", "A", "T", "I", "V", "E">>
      [] w = "precise" -> <<"p", "r", "e", "c", "i", "s", "e">>
      [] w = "tool" -> <<"t", "o", "o", "l">>
      [] w = "multiagent" -> <<"m", "u", "l", "t", "i", "a", "g", "e", "n", "t">>
      [] w = " " -> <<" ">>
      [] w = "hello" -> <<"h", "e", "l", "l", "o">>
      [] w = "SECRET" -> <<"S", "E", "C", "R", "E", "T">>
      [] w = "credit " -> <<"c", "r", "e", "d", "i", "t", " ">>
      [] w = "card" -> <<"c", "a", "r", "d">>
      [] w = "sensitive" -> <<"s", "e", "n", "s", "i", "t", "i", "v", "e">>
      [] w = "confidential" ->
            <<"c", "o", "n", "f", "i", "d", "e", "n", "t", "i", "a", "l">>
      [] w = "secret" -> <<"s", "e", "c", "r", "e", "t">>
      [] w = "password" -> <<"p", "a", "s", "s", "w", "o", "r", "d">>
      [] w = "credit card" ->
            <<"c", "r", "e", "d", "i", "t", " ", "c", "a", "r", "d">>
\* the characters of a lesson name
RECURSIVE SpellAll(_)
SpellAll(name) ==
    IF name = <<>> THEN <<>> ELSE Spell(name[1]) \o SpellAll(Tail(name))

\* str.lower() on characters
lower(chars) ==
    [i \in 1..Len(chars) |->
        CASE chars[i] = "A" -> "a" [] chars[i] = "C" -> "c"
          [] chars[i] = "D" -> "d" [] chars[i] = "E" -> "e"
          [] chars[i] = "I" -> "i" [] chars[i] = "R" -> "r"
          [] chars[i] = "S" -> "s"
          [] chars[i] = "T" -> "t" [] chars[i] = "V" -> "v"
          [] OTHER -> chars[i]]

\* word in chars
IsIn(word, chars) ==
    \E i \in 1..(Len(chars) - Len(Spell(word)) + 1) :
        SubSeq(chars, i, i + Len(Spell(word)) - 1) = Spell(word)

\* a variant that matches the name as it is written
Configure_CaseSensitive(name) ==
    LET context_lower == SpellAll(name)
    IN  IF IsIn("demo", context_lower) \/ IsIn("demonstration", context_lower)
        THEN [temperature |-> "0.5", max_tokens |-> 300]
        ELSE IF IsIn("creative", context_lower)
        THEN [temperature |-> "0.9", max_tokens |-> 800]
        ELSE IF IsIn("precise", context_lower) \/ IsIn("tool", context_lower)
        THEN [temperature |-> "0.3", max_tokens |-> 500]
        ELSE [temperature |-> DEFAULT_TEMPERATURE, max_tokens |-> DEFAULT_MAX_TOKENS]

\* lines 122-139: the configuration chosen from the lesson name
Configure(name) ==
    LET context_lower == lower(SpellAll(name))
    IN  IF IsIn("demo", context_lower) \/ IsIn("demonstration", context_lower)
        THEN [temperature |-> "0.5", max_tokens |-> 300]
        ELSE IF IsIn("creative", context_lower)
        THEN [temperature |-> "0.9", max_tokens |-> 800]
        ELSE IF IsIn("precise", context_lower) \/ IsIn("tool", context_lower)
        THEN [temperature |-> "0.3", max_tokens |-> 500]
        ELSE [temperature |-> DEFAULT_TEMPERATURE, max_tokens |-> DEFAULT_MAX_TOKENS]

Providers == {"OpenAI", "Anthropic", "Gemini", "Bedrock", "Ollama"}
KeyProviders == {"OpenAI", "Anthropic", "Gemini"}
\* os.getenv of an API key: None, the empty string, or a key
KeyStates == {"unset", "empty", "set"}
\* what lines 207-226 meet: no credentials, credentials without an access
\* key, an exception, or usable credentials
BedrockStates == {"no credentials", "no access key", "raises", "ok"}
\* what lines 235-249 meet: an exception, a status other than 200, an empty
\* list of models, or a list of models
OllamaStates == {"raises", "not 200", "no models", "ok"}
Environments ==
    [available : [Providers -> BOOLEAN], key : [KeyProviders -> KeyStates],
     bedrock : BedrockStates, ollama : OllamaStates]

\* a model object: its class, its model_id, and the settings it is given
Model(provider, id, settings) ==
    [provider |-> provider, model_id |-> id, settings |-> settings]
None == Model("None", "", <<>>)

\* lines 197-226
_try_bedrock_connection(env, max_tokens, temperature) ==
    IF env.bedrock = "ok"
    THEN Model("Bedrock", BEDROCK_MODEL,
               [max_tokens |-> max_tokens, temperature |-> temperature])
    ELSE None

\* lines 228-251: the model is the first the local server lists
_try_ollama_connection(env) ==
    IF env.ollama = "ok" THEN Model("Ollama", "<first model>", <<>>) ELSE None

\* a variant that tries Gemini before Anthropic
SelectProvider_GeminiSecond(env, config) ==
    IF env.available["OpenAI"] /\ env.key["OpenAI"] = "set"
    THEN Model("OpenAI", OPENAI_MODEL,
               [max_tokens |-> config.max_tokens,
                temperature |-> config.temperature])
    ELSE IF env.available["Gemini"] /\ env.key["Gemini"] = "set"
    THEN Model("Gemini", GEMINI_MODEL,
               [max_output_tokens |-> config.max_tokens,
                temperature |-> config.temperature])
    ELSE IF env.available["Anthropic"] /\ env.key["Anthropic"] = "set"
    THEN Model("Anthropic", ANTHROPIC_MODEL,
               [max_tokens |-> config.max_tokens,
                temperature |-> config.temperature])
    ELSE IF env.available["Bedrock"]
            /\ _try_bedrock_connection(env, config.max_tokens,
                                       config.temperature) # None
    THEN _try_bedrock_connection(env, config.max_tokens, config.temperature)
    ELSE IF env.available["Ollama"] /\ _try_ollama_connection(env) # None
    THEN _try_ollama_connection(env)
    ELSE None

\* lines 141-195: the first provider that works
SelectProvider(env, config) ==
    IF env.available["OpenAI"] /\ env.key["OpenAI"] = "set"
    THEN Model("OpenAI", OPENAI_MODEL,
               [max_tokens |-> config.max_tokens,
                temperature |-> config.temperature])
    ELSE IF env.available["Anthropic"] /\ env.key["Anthropic"] = "set"
    THEN Model("Anthropic", ANTHROPIC_MODEL,
               [max_tokens |-> config.max_tokens,
                temperature |-> config.temperature])
    ELSE IF env.available["Gemini"] /\ env.key["Gemini"] = "set"
    THEN Model("Gemini", GEMINI_MODEL,
               [max_output_tokens |-> config.max_tokens,
                temperature |-> config.temperature])
    ELSE IF env.available["Bedrock"]
            /\ _try_bedrock_connection(env, config.max_tokens,
                                       config.temperature) # None
    THEN _try_bedrock_connection(env, config.max_tokens, config.temperature)
    ELSE IF env.available["Ollama"] /\ _try_ollama_connection(env) # None
    THEN _try_ollama_connection(env)
    ELSE None

\* no model is being created
NoCreation ==
    /\ lesson_name = <<>>
    /\ environment = <<>>
    /\ configuration = <<>>
    /\ model = None

(***************************************************************************)
(* The tool called on one expression.  The specifications differ in the    *)
(* expressions they draw.                                                  *)
(***************************************************************************)
\* the operator named f applied to args: the operators of the evaluator call
\* one another through Do
Do(f, args) ==
    CASE f = "ParseAtom" -> ParseAtom(args[1], args[2])
      [] f = "ParseItems" -> ParseItems(args[1], args[2], args[3], args[4])
      [] f = "ParseArglist" -> ParseArglist(args[1], args[2], args[3], args[4])
      [] f = "ParseTrailers" -> ParseTrailers(args[1], args[2], args[3])
      [] f = "ParsePower" -> ParsePower(args[1], args[2])
      [] f = "ParseFactor" -> ParseFactor(args[1], args[2])
      [] f = "ParseTermRest" -> ParseTermRest(args[1], args[2], args[3])
      [] f = "ParseTerm" -> ParseTerm(args[1], args[2])
      [] f = "ParseArithRest" -> ParseArithRest(args[1], args[2], args[3])
      [] f = "ParseArith" -> ParseArith(args[1], args[2])
      [] f = "ParseTestlistRest" -> ParseTestlistRest(args[1], args[2], args[3])
      [] f = "ParseTestlist" -> ParseTestlist(args[1], args[2])
      [] f = "ParseEval" -> ParseEval(args[1])
      [] f = "Repr" -> Repr(args[1])
      [] f = "ReprItems" -> ReprItems(args[1])
      [] f = "Str" -> Str(args[1])
      [] f = "FloatRepr" -> FloatRepr(args[1], args[2])
      [] f = "IntText" -> IntText(args[1])
      [] f = "BinOp" -> BinOp(args[1], args[2], args[3])
      [] f = "UnaryOp" -> UnaryOp(args[1], args[2])
      [] f = "PowReal" -> PowReal(args[1], args[2])
      [] f = "RootPow" -> RootPow(args[1], args[2], args[3], args[4])
      [] f = "FracPow" -> FracPow(args[1], args[2], args[3])
      [] f = "SqrtFrac" -> SqrtFrac(args[1], args[2])
      [] f = "SqrtTimes" -> SqrtTimes(args[1], args[2], args[3])
      [] f = "GetAttr" -> GetAttr(args[1], args[2], args[3])
      [] f = "PyEq" -> PyEq(args[1], args[2])
      [] f = "PyLess" -> PyLess(args[1], args[2])
      [] f = "Best" -> Best(args[1], args[2], args[3])
      [] f = "MinMax" -> MinMax(args[1], args[2])
      [] f = "Round" -> Round(args[1])
      [] f = "PowMod" -> PowMod(args[1], args[2], args[3])
      [] f = "Pow" -> Pow(args[1])
      [] f = "AbsFn" -> AbsFn(args[1])
      [] f = "MathFn" -> MathFn(args[1], args[2])
      [] f = "Call" -> Call(args[1], args[2], args[3], args[4])
      [] f = "Update" -> Update(args[1], args[2], args[3], args[4])
      [] f = "EvalKeywords" -> EvalKeywords(args[1], args[2], args[3], args[4])
      [] f = "FunctionStr" -> FunctionStr(args[1])
      [] f = "EvalAll" -> EvalAll(args[1], args[2], args[3])
      [] f = "EvalCall" -> EvalCall(args[1], args[2], args[3])
      [] f = "Eval" -> Eval(args[1], args[2])
      [] f = "PyEval" -> PyEval(args[1], args[2])
      [] f = "FormatResult" -> FormatResult(args[1])
      [] f = "FirstMatch" -> FirstMatch(args[1], args[2])
      [] f = "ErrorMessage" -> ErrorMessage(args[1], args[2], args[3])

SeqsUpTo(S, n) == UNION {[1..k -> S] : k \in 0..n}

\* arithmetic only
ArithTokens == {"0", "2", "x", "-", "/", "//", "**", "(", ")"}
\* names, strings, calls, attributes and tuples as well
PyTokens == {"1", "0", "'a'", "x", "sqrt", "real", "+", "/", "(", ")", ",", "."}
\* the five arithmetic operators on integer literals
PrecTokens == {"1", "2", "+", "-", "*", "/", "**"}
\* parentheses around a difference
ParenTokens == {"2", "-", "*", "(", ")"}
\* calls of the table's functions
CallTokens == {"max", "round", "pow", "sqrt", "1", "2", "(", ")", ","}
\* negative bases and fractional exponents
PowTokens == {"2", "0.5", "-", "**", "(", ")"}

InitWith(inputs) ==
    /\ expression \in inputs
    /\ result = <<>>
    /\ handler = "none"
    /\ pc = "call"
    /\ modules = InitialModules
    /\ tasks = <<>>
    /\ NoCreation
    /\ NoLessons

Calculate ==
    /\ pc = "call"
    /\ result' = calculator(expression, modules).text
    /\ handler' = calculator(expression, modules).handler
    /\ modules' = calculator(expression, modules).mods
    /\ pc' = "done"
    /\ UNCHANGED <<expression, tasks, creation, lessons>>

Init == InitWith(SeqsUpTo(PyTokens, MaxLenPy))
Next == Calculate
Spec == Init /\ [][Next]_vars

InitArith == InitWith(SeqsUpTo(ArithTokens, MaxLen))
SpecArith == InitArith /\ [][Next]_vars

\* as many opening as closing parentheses
Paired(ts) ==
    Cardinality({i \in DOMAIN ts : ts[i] = "("})
        = Cardinality({i \in DOMAIN ts : ts[i] = ")"})
InitPrec ==
    InitWith(SeqsUpTo(PrecTokens, MaxLen)
             \cup {ts \in SeqsUpTo(ParenTokens, MaxLenParen) : Paired(ts)})
SpecPrec == InitPrec /\ [][Next]_vars

InitCall == InitWith({ts \in SeqsUpTo(CallTokens, MaxLenCall) : Paired(ts)})
SpecCall == InitCall /\ [][Next]_vars

InitPow == InitWith(SeqsUpTo(PowTokens, MaxLenPow))
SpecPow == InitPow /\ [][Next]_vars

\* string literals among numbers, names and calls
TextTokens ==
    {"'Error: Division by zero is not allowed'", "'a'", "min", "(", ")", "+",
     "1", "/", "0", "x"}
InitText == InitWith(SeqsUpTo(TextTokens, MaxLenText))
SpecText == InitText /\ [][Next]_vars

\* the sums of two operands, each a quotient of literals and names
OperandTokens == {"1", "0", "x", "/"}
SumInputs ==
    {a \o <<"+">> \o b : a, b \in SeqsUpTo(OperandTokens, MaxLenOperand)}
InitSum == InitWith(SumInputs)
SpecSum == InitSum /\ [][Next]_vars

(***************************************************************************)
(* The tool called again and again in one process, as an agent does for    *)
(* each question it is asked (lines 150-153).  The modules live as long    *)
(* as the process.                                                         *)
(***************************************************************************)
\* an expression that stores v under the name n in the module of function f
Mutator(f, n, v) ==
    <<f, ".", "__self__", ".", "__dict__", ".", "update", "(", n, "=", v, ")">>
Mutators ==
    {Mutator("sqrt", n, "1") : n \in {"pi", "x", "sqrt"}}
        \cup {Mutator("abs", "abs", "1")}

\* names and calls
SessionTokens == {"pi", "x", "sqrt", "abs", "(", ")"}
SessionInputs ==
    SeqsUpTo(SessionTokens, MaxLenSession) \cup Mutators
        \cup {<<"sqrt", "(", "pi", ")">>, <<"abs", "(", "pi", ")">>,
               <<"sqrt", ".", "__self__", ".", "pi">>,
               <<"(", "pi", ":=", "1", ")", "+", "pi">>}

\* the next call of the tool
CallAgain ==
    /\ pc = "done"
    /\ expression' \in SessionInputs
    /\ result' = <<>>
    /\ handler' = "none"
    /\ pc' = "call"
    /\ UNCHANGED <<modules, tasks, creation, lessons>>

InitSession == InitWith(SessionInputs)
NextSession == Calculate \/ CallAgain
SpecSession == InitSession /\ [][NextSession]_vars

(***************************************************************************)
(* The tool called by several agents at once (lines 298-311): one task per *)
(* question, gathered.  A task's call builds allowed_names (lines 83-97)   *)
(* and then evaluates (line 100); calls of other tasks may run in between. *)
(* tasks[t] is [expression, names, result, handler, pc].                   *)
(***************************************************************************)
\* lines 290-294: the questions asked at once
NumTasks == 3

GatherInputs ==
    {Mutator("sqrt", "pi", "1"), Mutator("abs", "abs", "1"),
     <<"pi">>, <<"abs", "(", "pi", ")">>, <<"1", "+", "1">>,
     <<"sqrt", ".", "__self__", ".", "pi">>,
     <<"(", "pi", ":=", "1", ")", "+", "pi">>}

InitGather ==
    /\ expression = <<>>
    /\ result = <<>>
    /\ handler = "none"
    /\ pc = "gather"
    /\ modules = InitialModules
    /\ NoCreation
    /\ NoLessons
    /\ tasks \in [1..NumTasks ->
                    [expression : GatherInputs, names : {<<>>}, result : {<<>>},
                     handler : {"none"}, pc : {"start"}]]

\* lines 83-97 in task t
BuildTable(t) ==
    /\ tasks[t].pc = "start"
    /\ tasks' = [tasks EXCEPT ![t].names = BuildNames(modules), ![t].pc = "eval"]
    /\ UNCHANGED <<expression, result, handler, pc, modules, creation, lessons>>

\* lines 100-114 in task t
EvaluateTask(t) ==
    /\ tasks[t].pc = "eval"
    /\ LET r == Evaluate(tasks[t].expression, tasks[t].names, modules)
       IN  /\ tasks' = [tasks EXCEPT ![t].names = r.names, ![t].result = r.text,
                                      ![t].handler = r.handler, ![t].pc = "done"]
           /\ modules' = r.mods
    /\ UNCHANGED <<expression, result, handler, pc, creation, lessons>>

NextGather ==
    \/ \E t \in DOMAIN tasks : BuildTable(t)
    \/ \E t \in DOMAIN tasks : EvaluateTask(t)
SpecGather == InitGather /\ [][NextGather]_vars

(***************************************************************************)
(* A lesson creating its model.                                            *)
(***************************************************************************)
InitCreation(names, environments) ==
    /\ expression = <<>>
    /\ result = <<>>
    /\ handler = "none"
    /\ modules = InitialModules
    /\ tasks = <<>>
    /\ pc = "create"
    /\ lesson_name \in names
    /\ environment \in environments
    /\ configuration = <<>>
    /\ model = None
    /\ NoLessons

create_working_model ==
    /\ pc = "create"
    /\ configuration' = Configure(lesson_name)
    /\ model' = SelectProvider(environment, Configure(lesson_name))
    /\ pc' = "created"
    /\ UNCHANGED <<tool, lesson_name, environment, lessons>>

NextCreation == create_working_model

\* the names the lessons pass, in every environment
LessonNames == {<<>>, <<"multiagent">>, <<"creative">>}
InitProviders == InitCreation(LessonNames, Environments)
SpecProviders == InitProviders /\ [][NextCreation]_vars

\* the environment in which the providers of S work and nothing else is
\* installed
Only(S) ==
    [available |-> [p \in Providers |-> p \in S],
     key |-> [p \in KeyProviders |-> IF p \in S THEN "set" ELSE "unset"],
     bedrock |-> IF "Bedrock" \in S THEN "ok" ELSE "no credentials",
     ollama |-> IF "Ollama" \in S THEN "ok" ELSE "raises"]
\* every name of up to MaxWords words, where one provider works or none
InitConfiguration ==
    InitCreation(SeqsUpTo(Words, MaxWords),
                 {Only({p}) : p \in Providers} \cup {Only({})})
SpecConfiguration == InitConfiguration /\ [][NextCreation]_vars

(***************************************************************************)
(* The async examples of lessons 1 and 2: the questions of a list asked    *)
(* at once with asyncio.gather.  An Agent instance is its message list;    *)
(* a query is one awaited invoke_async: the index of its question, the     *)
(* instance it runs on (0 before there is one), and where it is.           *)
(***************************************************************************)
Examples == {"lesson_01", "lesson_02"}
\* the message a question or its answer adds to the history of an agent
Message(role, question) == [role |-> role, question |-> question]
\* Agent(...): a new instance, with no history
Agent == [messages |-> <<>>]
\* a query that has not started
Query(question, agent) == [question |-> question, agent |-> agent, at |-> "created"]

\* an example is about to run
InitConcurrent ==
    /\ expression = <<>>
    /\ result = <<>>
    /\ handler = "none"
    /\ modules = InitialModules
    /\ tasks = <<>>
    /\ NoCreation
    /\ pc = "example"
    /\ example \in Examples
    /\ agents = <<>>
    /\ queries = <<>>
    /\ NoGuarded /\ NoTodo /\ NoNotebook /\ NoResearch
    /\ returned = <<>>

\* lesson_01 lines 233-254: one agent answers a first question, then the
\* coroutines of the three questions are made from the same agent
async_agent_example ==
    /\ pc = "example"
    /\ example = "lesson_01"
    /\ agents' = <<[Agent EXCEPT !.messages =
                        <<Message("user", 0), Message("assistant", 0)>>]>>
    /\ queries' = [q \in 1..NumTasks |-> Query(q, 1)]
    /\ pc' = "gather"
    /\ UNCHANGED <<tool, creation, example, guarded, todo, notebook, research,
                   returned>>

\* lesson_02 lines 290-308: the coroutines of the three questions are made;
\* none has an agent before it runs
async_calculator_example ==
    /\ pc = "example"
    /\ example = "lesson_02"
    /\ agents' = <<>>
    /\ queries' = [q \in 1..NumTasks |-> Query(q, 0)]
    /\ pc' = "gather"
    /\ UNCHANGED <<tool, creation, example, guarded, todo, notebook, research,
                   returned>>

\* lesson_01 line 254: a coroutine of the shared agent starts, and the
\* question joins the history of the agent
invoke_async(q) ==
    /\ pc = "gather"
    /\ example = "lesson_01"
    /\ queries[q].at = "created"
    /\ agents' = [agents EXCEPT ![queries[q].agent].messages =
                      Append(@, Message("user", queries[q].question))]
    /\ queries' = [queries EXCEPT ![q].at = "running"]
    /\ UNCHANGED <<tool, creation, pc, example, guarded, todo, notebook,
                   research, returned>>

\* lesson_02 lines 298-305: a coroutine starts: it makes its agent and asks
\* it the question
ask_question(q) ==
    /\ pc = "gather"
    /\ example = "lesson_02"
    /\ queries[q].at = "created"
    /\ agents' = Append(agents, [Agent EXCEPT !.messages =
                                    <<Message("user", queries[q].question)>>])
    /\ queries' = [queries EXCEPT ![q].agent = Len(agents) + 1,
                                  ![q].at = "running"]
    /\ UNCHANGED <<tool, creation, pc, example, guarded, todo, notebook,
                   research, returned>>

\* the model answers a running query: the answer joins the history of its
\* agent
Answer(q) ==
    /\ pc = "gather"
    /\ queries[q].at = "running"
    /\ agents' = [agents EXCEPT ![queries[q].agent].messages =
                      Append(@, Message("assistant", queries[q].question))]
    /\ queries' = [queries EXCEPT ![q].at = "done"]
    /\ UNCHANGED <<tool, creation, pc, example, guarded, todo, notebook,
                   research, returned>>

\* lesson_01 line 257, lesson_02 line 311: gather returns when every query
\* is done
gather ==
    /\ pc = "gather"
    /\ \A q \in DOMAIN queries : queries[q].at = "done"
    /\ pc' = "gathered"
    /\ UNCHANGED <<tool, creation, concurrent, guarded, todo, notebook,
                   research, returned>>

NextConcurrent ==
    \/ async_agent_example
    \/ async_calculator_example
    \/ \E q \in DOMAIN queries : invoke_async(q)
    \/ \E q \in DOMAIN queries : ask_question(q)
    \/ \E q \in DOMAIN queries : Answer(q)
    \/ gather
SpecConcurrent == InitConcurrent /\ [][NextConcurrent]_vars

(***************************************************************************)
(* The agent of lesson 10 with NotifyOnlyGuardrailsHook.  The agent adds a *)
(* message to its list and announces it (MessageAddedEvent); when the      *)
(* invocation is over it announces that (AfterInvocationEvent).  The hook  *)
(* has one callback for each.  A callback is handed the event: the agent's *)
(* message list, whose last entry is the message of a MessageAddedEvent.   *)
(* What a callback does to the event, what it prints and whether it raises *)
(* is what it returns here.                                                *)
(***************************************************************************)
\* most content blocks of a message
MaxBlocks == 2
\* lines 112-118
blocked_patterns ==
    <<"sensitive", "confidential", "secret", "password", "credit card">>
\* a content block: a text, or a block without the key "text"
Text(w) == [text |-> w]
ToolUse == [toolUse |-> "call"]
Blocks == {Text("hello"), Text("SECRET"), Text("credit "), Text("card"), ToolUse}
Roles == {"user", "assistant"}
Messages == [role : Roles, content : SeqsUpTo(Blocks, MaxBlocks)]

\* "".join(block.get("text", "") for block in content), in characters
RECURSIVE JoinText(_)
JoinText(content) ==
    IF content = <<>> THEN <<>>
    ELSE (IF "text" \in DOMAIN content[1] THEN Spell(content[1].text) ELSE <<>>)
         \o JoinText(Tail(content))

\* lines 135-138: the patterns that occur in the content, in their order
RECURSIVE Violations(_, _)
Violations(patterns, content_lower) ==
    IF patterns = <<>> THEN <<>>
    ELSE (IF IsIn(patterns[1], content_lower) THEN <<patterns[1]>> ELSE <<>>)
         \o Violations(Tail(patterns), content_lower)

\* the event after a callback: the list it was handed, what is printed, and
\* whether the callback raised
Handled(list, out, raised) == [messages |-> list, printed |-> out, raised |-> raised]

\* a variant that enforces: it blanks the last message and raises
evaluate_content_Enforce(content, source, list, out) ==
    LET content_lower == lower(content)
        violations == Violations(blocked_patterns, content_lower)
    IN  IF violations # <<>>
        THEN Handled([list EXCEPT ![Len(list)].content = <<>>],
                     Append(out, [source |-> source,
                                  content |-> SubSeq(content, 1,
                                      IF Len(content) < 100 THEN Len(content) ELSE 100),
                                  violations |-> violations]),
                     TRUE)
        ELSE Handled(list, out, FALSE)

\* lines 125-144: the patterns found in the lowered content are printed
\* with the first 100 characters of the content
evaluate_content(content, source, list, out) ==
    LET content_lower == lower(content)
        violations == Violations(blocked_patterns, content_lower)
    IN  IF violations # <<>>
        THEN Handled(list,
                     Append(out, [source |-> source,
                                  content |-> SubSeq(content, 1,
                                      IF Len(content) < 100 THEN Len(content) ELSE 100),
                                  violations |-> violations]),
                     FALSE)
        ELSE Handled(list, out, FALSE)

\* lines 146-154: the callback of MessageAddedEvent; event.message is the
\* last message of the list
check_user_input(list, out) ==
    LET message == list[Len(list)]
        content == JoinText(message.content)
    IN  IF message.role = "user" /\ content # <<>>
        THEN evaluate_content(content, "INPUT", list, out)
        ELSE Handled(list, out, FALSE)

\* lines 156-165: the callback of AfterInvocationEvent
check_assistant_response(list, out) ==
    IF list # <<>> /\ list[Len(list)].role = "assistant"
    THEN LET content == JoinText(list[Len(list)].content)
         IN  IF content # <<>>
             THEN evaluate_content(content, "OUTPUT", list, out)
             ELSE Handled(list, out, FALSE)
    ELSE Handled(list, out, FALSE)

\* lines 170-174: the agent with the hook, about to be invoked
InitGuarded ==
    /\ expression = <<>>
    /\ result = <<>>
    /\ handler = "none"
    /\ modules = InitialModules
    /\ tasks = <<>>
    /\ NoCreation
    /\ pc = "invoke"
    /\ messages = <<>>
    /\ printed = <<>>
    /\ NoConcurrent /\ NoTodo /\ NoNotebook /\ NoResearch
    /\ returned = <<>>

\* the agent puts the user's message, then the model's, on its list
AppendMessage(message) ==
    /\ \/ pc = "invoke" /\ message.role = "user" /\ pc' = "user added"
       \/ pc = "model" /\ message.role = "assistant" /\ pc' = "assistant added"
    /\ messages' = Append(messages, message)
    /\ UNCHANGED <<tool, creation, printed, concurrent, todo, notebook,
                   research, returned>>

\* the model call ends without a message
NoResponse ==
    /\ pc = "model"
    /\ pc' = "after"
    /\ UNCHANGED <<tool, creation, guarded, concurrent, todo, notebook,
                   research, returned>>

\* line 122: the hook is called with the MessageAddedEvent
OnMessageAdded ==
    /\ pc \in {"user added", "assistant added"}
    /\ LET after == check_user_input(messages, printed)
       IN  /\ messages' = after.messages
           /\ printed' = after.printed
           /\ pc' = IF after.raised THEN "failed"
                    ELSE IF pc = "user added" THEN "model" ELSE "after"
    /\ UNCHANGED <<tool, creation, concurrent, todo, notebook, research,
                   returned>>

\* line 123: the hook is called with the AfterInvocationEvent
OnAfterInvocation ==
    /\ pc = "after"
    /\ LET after == check_assistant_response(messages, printed)
       IN  /\ messages' = after.messages
           /\ printed' = after.printed
           /\ pc' = IF after.raised THEN "failed" ELSE "invoked"
    /\ UNCHANGED <<tool, creation, concurrent, todo, notebook, research,
                   returned>>

NextGuarded ==
    \/ \E message \in Messages : AppendMessage(message)
    \/ NoResponse
    \/ OnMessageAdded
    \/ OnAfterInvocation
SpecGuarded == InitGuarded /\ [][NextGuarded]_vars

(***************************************************************************)
(* The todo tools of lesson 4.  The agent's state is a store of JSON       *)
(* values by key: the tools keep a list under "todos".  A tool reads a     *)
(* copy of the list, works on the copy and writes it back.                 *)
(***************************************************************************)
\* longest todo list
MaxTodos == 3
\* the texts and the ids the model hands to the tools
Items == {"Buy groceries", "Finish homework"}
TodoIds == 1..(MaxTodos + 1)

\* agent.state.get("todos") or []
Todos(store) == IF "todos" \in DOMAIN store THEN store.todos ELSE <<>>
\* agent.state.set("todos", todos)
SetTodos(store, todos) == [todos |-> todos]

\* lines 101: todos.append({"id": len(todos) + 1, "text": item, "done": False})
Appended(todos, item) ==
    Append(todos, [id |-> Len(todos) + 1, text |-> item, done |-> FALSE])

\* the first position of todos with the id, or 0
RECURSIVE Find(_, _, _)
Find(todos, todo_id, i) ==
    IF i > Len(todos) THEN 0
    ELSE IF todos[i].id = todo_id THEN i
    ELSE Find(todos, todo_id, i + 1)

\* line 145: [t for t in todos if t["id"] != todo_id]
RECURSIVE Without(_, _)
Without(todos, todo_id) ==
    IF todos = <<>> THEN <<>>
    ELSE (IF todos[1].id # todo_id THEN <<todos[1]>> ELSE <<>>)
         \o Without(Tail(todos), todo_id)

\* lines 170-175: the agent with the todo tools, with an empty state
InitTodo ==
    /\ expression = <<>>
    /\ result = <<>>
    /\ handler = "none"
    /\ modules = InitialModules
    /\ tasks = <<>>
    /\ NoCreation
    /\ pc = "todo"
    /\ state = <<>>
    /\ calls = <<>>
    /\ NoConcurrent /\ NoGuarded /\ NoNotebook /\ NoResearch
    /\ returned = <<>>

\* lines 95-107
add_todo(item) ==
    /\ pc = "todo"
    /\ Len(Todos(state)) < MaxTodos
    /\ LET todos == Appended(Todos(state), item)
       IN  /\ state' = SetTodos(state, todos)
           /\ returned' = <<"Added todo: ", item, " (ID: ", Len(todos), ")">>
    /\ UNCHANGED <<tool, creation, pc, calls, concurrent, guarded, notebook,
                   research>>

\* lines 126-137: the first todo with the id is marked
complete_todo(todo_id) ==
    /\ pc = "todo"
    /\ LET todos == Todos(state)
           i == Find(todos, todo_id, 1)
       IN  IF i # 0
           THEN /\ state' = SetTodos(state, [todos EXCEPT ![i].done = TRUE])
                /\ returned' = <<"Completed todo: ", todos[i].text>>
           ELSE /\ state' = state
                /\ returned' = <<"Todo ", todo_id, " not found">>
    /\ UNCHANGED <<tool, creation, pc, calls, concurrent, guarded, notebook,
                   research>>

\* lines 140-152: every todo with the id is left out
delete_todo(todo_id) ==
    /\ pc = "todo"
    /\ LET todos == Todos(state)
           updated_todos == Without(todos, todo_id)
       IN  IF Len(updated_todos) = Len(todos)
           THEN /\ state' = state
                /\ returned' = <<"Todo ", todo_id, " not found">>
           ELSE /\ state' = SetTodos(state, updated_todos)
                /\ returned' = <<"Deleted todo ", todo_id>>
    /\ UNCHANGED <<tool, creation, pc, calls, concurrent, guarded, notebook,
                   research>>

NextTodo ==
    \/ \E item \in Items : add_todo(item)
    \/ \E todo_id \in TodoIds : complete_todo(todo_id)
    \/ \E todo_id \in TodoIds : delete_todo(todo_id)
SpecTodo == InitTodo /\ [][NextTodo]_vars

(***************************************************************************)
(* Two add_todo calls of one model response.  The concurrent executor runs *)
(* the tool calls of a response at the same time, so the statements of the *)
(* two calls interleave: a call reads the list (line 98), then appends to  *)
(* its copy and writes the copy back (lines 101-104), then returns.        *)
(***************************************************************************)
\* the tool calls of one response
NumCalls == 2
\* a tool call that has not run: its argument, its local list, its return
ToolCall(item) == [item |-> item, todos |-> <<>>, at |-> "called", returned |-> <<>>]

\* the lists the tools leave with at most one todo
StoredTodos ==
    {<<>>} \cup {<<[id |-> 1, text |-> item, done |-> done]>> :
                    item \in Items, done \in BOOLEAN}

\* lesson_04 line 173: the model asks for both items in one response
InitExecutor ==
    /\ expression = <<>>
    /\ result = <<>>
    /\ handler = "none"
    /\ modules = InitialModules
    /\ tasks = <<>>
    /\ NoCreation
    /\ pc = "executor"
    /\ state \in {<<>>} \cup {[todos |-> todos] : todos \in StoredTodos}
    /\ calls \in {[c \in 1..NumCalls |-> ToolCall(items[c])] :
                     items \in [1..NumCalls -> Items]}
    /\ NoConcurrent /\ NoGuarded /\ NoNotebook /\ NoResearch
    /\ returned = <<>>

\* line 98: todos = agent.state.get("todos") or []
add_todo_get(c) ==
    /\ pc = "executor"
    /\ calls[c].at = "called"
    /\ calls' = [calls EXCEPT ![c].todos = Todos(state), ![c].at = "read"]
    /\ UNCHANGED <<tool, creation, pc, state, concurrent, guarded, notebook,
                   research, returned>>

\* lines 101-107: the call appends to its list, writes it and returns
add_todo_set(c) ==
    /\ pc = "executor"
    /\ calls[c].at = "read"
    /\ LET todos == Appended(calls[c].todos, calls[c].item)
       IN  /\ state' = SetTodos(state, todos)
           /\ calls' = [calls EXCEPT
                  ![c].todos = todos,
                  ![c].at = "returned",
                  ![c].returned =
                      <<"Added todo: ", calls[c].item, " (ID: ", Len(todos), ")">>]
    /\ UNCHANGED <<tool, creation, pc, concurrent, guarded, notebook,
                   research, returned>>

\* the executor has the result of every call
Executed ==
    /\ pc = "executor"
    /\ \A c \in DOMAIN calls : calls[c].at = "returned"
    /\ pc' = "executed"
    /\ UNCHANGED <<tool, creation, todo, concurrent, guarded, notebook,
                   research, returned>>

NextExecutor ==
    \/ \E c \in DOMAIN calls : add_todo_get(c)
    \/ \E c \in DOMAIN calls : add_todo_set(c)
    \/ Executed
SpecExecutor == InitExecutor /\ [][NextExecutor]_vars

(***************************************************************************)
(* The notebook of lesson 7: a NotebookManager and the calls of its        *)
(* add_note and delete_note tools, one after the other.  history is the    *)
(* record of the calls that changed the notebook: the tool and the id.     *)
(***************************************************************************)
\* most notes ever added
MaxNotes == 3
NoteContents == {"idea", "list"}
NoteIds == 1..(MaxNotes + 1)

\* lines 48-51: NotebookManager()
InitNotebook ==
    /\ expression = <<>>
    /\ result = <<>>
    /\ handler = "none"
    /\ modules = InitialModules
    /\ tasks = <<>>
    /\ NoCreation
    /\ pc = "notebook"
    /\ notes = <<>>
    /\ next_id = 1
    /\ history = <<>>
    /\ NoConcurrent /\ NoGuarded /\ NoTodo /\ NoResearch
    /\ returned = <<>>

\* a variant that numbers a note by the count of the notes
add_note_ByCount(content) ==
    /\ pc = "notebook"
    /\ next_id <= MaxNotes
    /\ LET note_id == Cardinality(DOMAIN notes) + 1
       IN  /\ notes' = [k \in DOMAIN notes \cup {note_id} |->
                           IF k = note_id THEN content ELSE notes[k]]
           /\ next_id' = next_id + 1
           /\ returned' = <<"Added note #", note_id, ": ", content, "...">>
           /\ history' = Append(history, [tool |-> "add_note", note_id |-> note_id])
    /\ UNCHANGED <<tool, creation, pc, concurrent, guarded, todo, research>>

\* lines 53-63
add_note(content) ==
    /\ pc = "notebook"
    /\ next_id <= MaxNotes
    /\ LET note_id == next_id
       IN  /\ notes' = [k \in DOMAIN notes \cup {note_id} |->
                           IF k = note_id THEN content ELSE notes[k]]
           /\ next_id' = next_id + 1
           /\ returned' = <<"Added note #", note_id, ": ", content, "...">>
           /\ history' = Append(history, [tool |-> "add_note", note_id |-> note_id])
    /\ UNCHANGED <<tool, creation, pc, concurrent, guarded, todo, research>>

\* lines 84-94
delete_note(note_id) ==
    /\ pc = "notebook"
    /\ IF note_id \in DOMAIN notes
       THEN /\ notes' = [k \in DOMAIN notes \ {note_id} |-> notes[k]]
            /\ returned' = <<"Deleted note #", note_id>>
            /\ history' = Append(history, [tool |-> "delete_note", note_id |-> note_id])
       ELSE /\ notes' = notes
            /\ returned' = <<"Note #", note_id, " not found">>
            /\ history' = history
    /\ UNCHANGED <<tool, creation, pc, next_id, concurrent, guarded, todo,
                   research>>

NextNotebook ==
    \/ \E content \in NoteContents : add_note(content)
    \/ \E note_id \in NoteIds : delete_note(note_id)
SpecNotebook == InitNotebook /\ [][NextNotebook]_vars

(***************************************************************************)
(* The research assistant of lesson 7: a ResearchAssistant and the calls   *)
(* of its add_source and cite_source tools, one after the other.  The      *)
(* time of a call is not told apart: every timestamp is the same piece.    *)
(***************************************************************************)
\* longest citation log
MaxCitations == 2
Urls == {"https://arxiv.org/abs/1706.03762", "https://arxiv.org/abs/2005.14165"}
Titles == {"Attention Is All You Need", "GPT-3 Paper"}
\* tool_context.invocation_state.get("user_id", "anonymous")
UserIds == {"anonymous", "researcher_alice"}
Timestamp == "<datetime.now().isoformat()>"

\* lines 396-399: ResearchAssistant()
InitResearch ==
    /\ expression = <<>>
    /\ result = <<>>
    /\ handler = "none"
    /\ modules = InitialModules
    /\ tasks = <<>>
    /\ NoCreation
    /\ pc = "research"
    /\ sources = <<>>
    /\ citations = <<>>
    /\ NoConcurrent /\ NoGuarded /\ NoTodo /\ NoNotebook
    /\ returned = <<>>

\* lines 401-424: the source is stored under its url, over what was there
add_source(url, title, summary, user_id, tool_id) ==
    /\ pc = "research"
    /\ sources' = [u \in DOMAIN sources \cup {url} |->
                      IF u = url
                      THEN [title |-> title, summary |-> summary,
                            added_by |-> user_id, tool_id |-> tool_id,
                            timestamp |-> Timestamp]
                      ELSE sources[u]]
    /\ returned' = <<"Added source: ", title, " (", url, ")">>
    /\ UNCHANGED <<tool, creation, pc, citations, concurrent, guarded, todo,
                   notebook>>

\* line 435
NotFound(url) == <<"Source ", url, " not found. Add it first with add_source.">>

\* a variant that logs the citation of a url it does not know
cite_source_Unchecked(url, user_id) ==
    /\ pc = "research"
    /\ Len(citations) < MaxCitations
    /\ LET title == IF url \in DOMAIN sources THEN sources[url].title ELSE ""
       IN  /\ citations' = Append(citations,
                   [url |-> url, title |-> title, cited_by |-> user_id,
                    timestamp |-> Timestamp])
           /\ returned' = <<"Citation: ", title, " - ", url>>
    /\ UNCHANGED <<tool, creation, pc, sources, concurrent, guarded, todo,
                   notebook>>

\* lines 426-449
cite_source(url, user_id) ==
    /\ pc = "research"
    /\ IF url \notin DOMAIN sources
       THEN /\ returned' = NotFound(url)
            /\ citations' = citations
       ELSE /\ Len(citations) < MaxCitations
            /\ citations' = Append(citations,
                   [url |-> url, title |-> sources[url].title,
                    cited_by |-> user_id, timestamp |-> Timestamp])
            /\ returned' = <<"Citation: ", sources[url].title, " - ", url>>
    /\ UNCHANGED <<tool, creation, pc, sources, concurrent, guarded, todo,
                   notebook>>

NextResearch ==
    \/ \E url \in Urls, title \in Titles, user_id \in UserIds :
           add_source(url, title, "summary", user_id, "tooluse_1")
    \/ \E url \in Urls, user_id \in UserIds : cite_source(url, user_id)
SpecResearch == InitResearch /\ [][NextResearch]_vars

(***************************************************************************)
(* What a caller sees in the returned text.                                *)
(***************************************************************************)
Done == pc = "done"

\* evaluation in a process whose modules no call has touched
FreshEnv == Env(BuildNames(InitialModules), InitialModules)
Outcome(ts) == PyEval(ts, FreshEnv)
ValueOf(ast) == Eval(ast, FreshEnv)

\* the kind of a returned text, read off its fixed phrase
Kind(text) ==
    IF text = <<>> THEN "success"
    ELSE CASE text[1] = "Error: Division by zero is not allowed" -> "DivisionByZero"
           [] text[1] = "Error: Invalid mathematical expression '" -> "SyntaxError"
           [] text[1] = "Error: Unknown function or variable in '" -> "UnknownName"
           [] text[1] = "Error: Could not evaluate '" -> "EvaluationError"
           [] OTHER -> "success"
ErrorKinds == {"DivisionByZero", "SyntaxError", "UnknownName", "EvaluationError"}

IsDigits(s) == s # <<>> /\ \A i \in 1..Len(s) : s[i] \in DigitChars

\* digits, with an optional sign in front
IsSignedDigits(s, signs) ==
    IF s # <<>> /\ s[1] \in signs THEN IsDigits(Tail(s)) ELSE IsDigits(s)

\* the text of one real number: [-]digits[.digits][e[+-]digits]
NumericText(text) ==
    LET b == IF text # <<>> /\ text[1] = "-" THEN Tail(text) ELSE text
    IN  \E i \in 1..Len(b) : \E j \in i..Len(b) :
            /\ IsDigits(SubSeq(b, 1, i))
            /\ \/ j = i
               \/ j > i + 1 /\ b[i + 1] = "." /\ IsDigits(SubSeq(b, i + 2, j))
            /\ \/ j = Len(b)
               \/ /\ b[j + 1] = "e"
                  /\ IsSignedDigits(SubSeq(b, j + 2, Len(b)), {"+", "-"})

\* part occurs in text as a run of adjacent pieces
Contains(text, part) ==
    \E i \in 0..(Len(text) - Len(part)) : SubSeq(text, i + 1, i + Len(part)) = part

Has(ts, S) == \E i \in 1..Len(ts) : ts[i] \in S

(***************************************************************************)
(* Claims.                                                                 *)
(***************************************************************************)

\* C1 (as stated): every call returns the text of a number or one of the
\* four classified errors, and no exception leaves the call.
C1_NumericOrClassified ==
    Done => /\ handler # "unhandled"
            /\ NumericText(result) \/ Kind(result) \in ErrorKinds

\* an identifier of the expression that allowed_names does not bind
UnknownNames(ts) == {ts[i] : i \in 1..Len(ts)} \cap (OtherNames \ allowed_names)
\* tokens outside the arithmetic grammar: strings, tuples, attribute access
NonArithmetic == StringTokens \cup Keywords \cup {",", "."}

\* C2 (as stated): an expression that uses attribute access, a name outside
\* the table or a non-arithmetic construct returns SyntaxError or
\* UnknownName, never a success.
C2_OutsideGrammarRejected ==
    (Done /\ (Has(expression, NonArithmetic) \/ UnknownNames(expression) # {}))
        => Kind(result) \in {"SyntaxError", "UnknownName"}

\* C3 (as stated): a success result is the text of one real number.
C3_SuccessIsNumeric ==
    (Done /\ Kind(result) = "success") => NumericText(result)

WellFormed(ts) == ParseEval(ts).ok

\* C6 (as stated): a well-formed expression holding an identifier outside
\* the symbol table returns UnknownName, wherever the identifier stands and
\* whether or not evaluation reaches it.
C6_UnknownIdentifierAlwaysNamed ==
    (Done /\ WellFormed(expression) /\ UnknownNames(expression) # {})
        => Kind(result) = "UnknownName"

\* the texts of the ZeroDivisionError raised by / with a zero divisor
SlashByZeroTexts ==
    {<<"division by zero">>, <<"float division by zero">>,
     <<"complex division by zero">>}
\* the texts of the ZeroDivisionError raised by // and % with a zero
\* divisor and by zero raised to a negative power
OtherZeroDivisionTexts ==
    {<<"float floor division by zero">>, <<"float modulo">>,
     <<"integer division or modulo by zero">>, <<"integer modulo by zero">>,
     ZeroPowMsg}
\* evaluation stopped with a ZeroDivisionError of one of these texts
StoppedBy(ts, texts) ==
    Outcome(ts).exc = "ZeroDivisionError" /\ Outcome(ts).msg \in texts

C7_WitnessOther ==
    /\ Done
    /\ Kind(result) = "DivisionByZero"
    /\ Outcome(expression).msg = ZeroPowMsg
    /\ ~Has(expression, {"/", "//", "%"})

\* operators that stand only between two operands
BinaryOnly == {"/", "//", "%"}
\* the count of "(" less the count of ")" in the first k tokens
RECURSIVE Depth(_, _)
Depth(ts, k) ==
    IF k = 0 THEN 0
    ELSE Depth(ts, k - 1) + (CASE ts[k] = "(" -> 1 [] ts[k] = ")" -> -1 [] OTHER -> 0)
Unbalanced(ts) ==
    Depth(ts, Len(ts)) # 0 \/ \E k \in 1..Len(ts) : Depth(ts, k) < 0
TrailingOperator(ts) == ts # <<>> /\ ts[Len(ts)] \in Operators
\* an operator with no operand on one of its sides; "*" and "**" after
\* "(" or "," and "*" in front are the unpacking syntax, not counted here
MissingOperand(ts) ==
    \E i \in 1..Len(ts) :
        /\ ts[i] \in Operators
        /\ \/ i < Len(ts) /\ ts[i + 1] \in BinaryOnly \cup {")", ","}
           \/ i < Len(ts) /\ ts[i + 1] \in {"*", "**"}
           \/ ts[i] \in BinaryOnly /\ (i = 1 \/ ts[i - 1] \in {"(", ","})
           \/ ts[i] = "**" /\ i = 1
Malformed(ts) ==
    ts = <<>> \/ Unbalanced(ts) \/ TrailingOperator(ts) \/ MissingOperand(ts)

\* C8: an expression that is empty, has unbalanced parentheses, ends in an
\* operator or has an operator without an operand returns SyntaxError.
C8_MalformedIsSyntaxError ==
    (Done /\ Malformed(expression))
        => Kind(result) = "SyntaxError" /\ handler = "SyntaxError"
C8_Witness ==
    /\ Done
    /\ Unbalanced(expression)
    /\ ~TrailingOperator(expression) /\ ~MissingOperand(expression)
    /\ Kind(result) = "SyntaxError"

\* the expression is base ** exponent with a negative real base and a real
\* exponent that is not a whole number
NegativeToFractional(ts) ==
    LET r == ParseEval(ts)
    IN  /\ r.ok
        /\ r.ast[1] = "bin" /\ r.ast[2] = "**"
        /\ LET base == ValueOf(r.ast[3])
               exp == ValueOf(r.ast[4])
           IN  /\ base.exc = "none" /\ IsReal(base.val) /\ base.val.n < 0
               /\ exp.exc = "none" /\ IsReal(exp.val) /\ ~is_integer(exp.val)

\* C9 (as stated): a negative base raised to a fractional exponent returns
\* EvaluationError, never a success.
C9_NegativeToFractionalIsError ==
    (Done /\ NegativeToFractional(expression)) => Kind(result) = "EvaluationError"

Binding(op) ==
    CASE op \in {"+", "-"} -> 1
      [] op \in {"*", "/"} -> 2
      [] op = "**" -> 4
      [] op = "unary -" -> 3
      [] OTHER -> 0
UnaryBinding == Binding("unary -")
\* the weakest operator the right operand of op may hold unparenthesised
RightBinding(op) == IF op = "**" THEN UnaryBinding ELSE Binding(op) + 1

RECURSIVE RefExpr(_, _, _)
RECURSIVE RefRest(_, _, _, _)
\* the operand at i followed by the operators that bind at least min
RefExpr(ts, i, min) ==
    LET t == Tok(ts, i)
    IN  CASE t \in {"1", "2"} -> RefRest(ts, i + 1, <<"num", t>>, min)
          [] t = "-" ->
                LET r == RefExpr(ts, i + 1, UnaryBinding)
                IN  IF r.ok THEN RefRest(ts, r.pos, <<"unary", "-", r.ast>>, min)
                    ELSE NoParse
          [] t = "(" ->
                LET r == RefExpr(ts, i + 1, 1)
                IN  IF r.ok /\ Tok(ts, r.pos) = ")"
                    THEN RefRest(ts, r.pos + 1, r.ast, min)
                    ELSE NoParse
          [] OTHER -> NoParse
RefRest(ts, i, left, min) ==
    LET op == Tok(ts, i)
    IN  IF Binding(op) = 0 \/ Binding(op) < min THEN Parsed(left, i)
        ELSE LET r == RefExpr(ts, i + 1, RightBinding(op))
             IN  IF r.ok THEN RefRest(ts, r.pos, <<"bin", op, left, r.ast>>, min)
                 ELSE NoParse

\* the whole expression read by the reference
RefParse(ts) ==
    LET r == RefExpr(ts, 1, 1)
    IN  IF r.ok /\ r.pos = Len(ts) + 1 THEN r ELSE NoParse

\* the text returned for the reference's reading of the expression
RefResult(ts) ==
    LET o == ValueOf(RefParse(ts).ast)
    IN  IF o.exc = "none" THEN FormatResult(o.val)
        ELSE ErrorMessage(FirstMatch(ExceptClauses, o.exc), ts, o.msg)

\* C11: for a well-formed expression over integer literals, + - * / **,
\* unary minus and parentheses, the result is that of the reference, in
\* which ** groups to the right and binds tighter than unary minus, unary
\* minus tighter than * and /, these tighter than + and -, all four
\* grouping to the left, and parentheses override.
C11_ReferencePrecedence ==
    (Done /\ RefParse(expression).ok) => result = RefResult(expression)
C11_Witness ==
    /\ Done
    /\ expression = <<"(", "2", "-", "2", ")", "*", "2">>
    /\ RefParse(expression).ast =
          <<"bin", "*", <<"bin", "-", <<"num", "2">>, <<"num", "2">>>>, <<"num", "2">>>>
    /\ result = <<"0">>

\* the number of arguments the claim fixes for each function of the table
FixedArity(f) == IF f \in {"min", "max", "pow"} THEN 2 ELSE 1
\* the expression is one call f(a1, ..., ak) of a function of the table,
\* its arguments written out one by one
IsPlainCall(ts) ==
    LET r == ParseEval(ts)
    IN  /\ r.ok
        /\ r.ast[1] = "call"
        /\ r.ast[2][1] = "name" /\ r.ast[2][2] \in allowed_names \ {"pi", "e"}
        /\ \A k \in 1..Len(r.ast[3]) : r.ast[3][k][1] \notin {"star", "dstar"}
CalledName(ts) == ParseEval(ts).ast[2][2]
ArgumentCount(ts) == Len(ParseEval(ts).ast[3])

\* C12 (as stated): a call with a number of arguments other than the
\* function's fixed number (2 for min, max, pow; 1 for sqrt, sin, cos,
\* tan, abs, round) returns an error, never a success.
C12_FixedArity ==
    (Done /\ IsPlainCall(expression)
          /\ ArgumentCount(expression) # FixedArity(CalledName(expression)))
        => Kind(result) \in ErrorKinds

(***************************************************************************)
(* C13: the result of calculator(e) depends only on e: whatever calls were *)
(* made before in the process, the call returns the string it returns in   *)
(* a fresh process.                                                        *)
(***************************************************************************)
C13_SameStringEveryTime ==
    Done => result = calculator(expression, InitialModules).text

(***************************************************************************)
(* C14: calls made concurrently return, in every interleaving, what each   *)
(* would return when made alone.                                           *)
(***************************************************************************)
Alone(expr) == calculator(expr, InitialModules)

C14_ConcurrentAsAlone ==
    \A t \in DOMAIN tasks :
        tasks[t].pc = "done" => tasks[t].result = Alone(tasks[t].expression).text

(***************************************************************************)
(* C15: while a call evaluates and after it, allowed_names holds the names *)
(* it is built with in a fresh process, each with its original value.      *)
(***************************************************************************)
C15_SymbolTableUnchanged ==
    \A t \in DOMAIN tasks :
        tasks[t].pc \in {"eval", "done"} => tasks[t].names = BuildNames(InitialModules)

(***************************************************************************)
(* C16: the kind of error a sum returns does not depend on the order of    *)
(* its operands, and a sum with an unresolved identifier in either operand *)
(* returns UnknownName.                                                    *)
(***************************************************************************)
\* the place of the + of a sum of two operands that hold none
PlusAt(ts) == CHOOSE i \in 1..Len(ts) : ts[i] = "+"
LeftOperand(ts) == SubSeq(ts, 1, PlusAt(ts) - 1)
RightOperand(ts) == SubSeq(ts, PlusAt(ts) + 1, Len(ts))
Swapped(ts) == RightOperand(ts) \o <<"+">> \o LeftOperand(ts)
IsSum(ts) ==
    /\ Has(ts, {"+"})
    /\ WellFormed(LeftOperand(ts))
    /\ WellFormed(RightOperand(ts))

C16_OrderIndependent ==
    (Done /\ IsSum(expression) /\ Kind(result) \in ErrorKinds)
        => /\ Kind(Alone(Swapped(expression)).text) = Kind(result)
           /\ UnknownNames(expression) # {} => Kind(result) = "UnknownName"

(***************************************************************************)
(* C17: a caller can tell from the returned text alone whether the call    *)
(* succeeded and, if not, which kind of error it met: the text of a        *)
(* success is the text of no error kind, and the text of one error kind    *)
(* is the text of no other.                                                *)
(***************************************************************************)
\* the kind of outcome the clause that returned stands for
KindOf(h) ==
    CASE h = "return" -> "success"
      [] h = "ZeroDivisionError" -> "DivisionByZero"
      [] h = "SyntaxError" -> "SyntaxError"
      [] h = "NameError" -> "UnknownName"
      [] OTHER -> "EvaluationError"

C17_KindsDisjoint == Done => Kind(result) = KindOf(handler)

(***************************************************************************)
(* C18: the model returned is that of the first provider, in the order     *)
(* OpenAI, Anthropic, Gemini, Bedrock, Ollama, whose package is importable *)
(* and whose credential or connection check succeeds; None is returned     *)
(* exactly when no provider qualifies.                                     *)
(***************************************************************************)
Created == pc = "created"

ProviderOrder == <<"OpenAI", "Anthropic", "Gemini", "Bedrock", "Ollama">>
\* the package of the provider is importable and its check succeeds
Qualifies(p, env) ==
    /\ env.available[p]
    /\ CASE p \in KeyProviders -> env.key[p] = "set"
         [] p = "Bedrock" -> env.bedrock = "ok"
         [] p = "Ollama" -> env.ollama = "ok"
Qualifying(env) == {i \in 1..Len(ProviderOrder) : Qualifies(ProviderOrder[i], env)}

C18_FirstQualifyingProvider ==
    Created =>
        IF Qualifying(environment) = {} THEN model = None
        ELSE /\ model # None
             /\ \E i \in Qualifying(environment) :
                    /\ model.provider = ProviderOrder[i]
                    /\ \A j \in Qualifying(environment) : i <= j

\* Gemini is chosen although Anthropic is installed without a key and
\* Bedrock and Ollama qualify as well
C18_Witness ==
    /\ Created
    /\ model.provider = "Gemini"
    /\ ~environment.available["OpenAI"]
    /\ environment.available["Anthropic"]
    /\ environment.key["Anthropic"] = "empty"
    /\ Qualifies("Bedrock", environment)
    /\ Qualifies("Ollama", environment)

(***************************************************************************)
(* C19: temperature and max_tokens are chosen from lesson_name by the      *)
(* first keyword, in the order demo, creative, precise or tool, that       *)
(* occurs in it as a substring whatever its case: 0.5 and 300, 0.9 and     *)
(* 800, 0.3 and 500; a name with no keyword gives 0.7 and 500.             *)
(***************************************************************************)
\* the keyword occurs in the name, whatever the case of the name's letters
Occurs(word, name) == Contains(lower(SpellAll(name)), Spell(word))

C20_MultiagentMaxTokens ==
    (Created /\ lesson_name = <<"multiagent">>)
        => /\ configuration.max_tokens = 1500
           /\ "max_tokens" \in DOMAIN model.settings
                  => model.settings["max_tokens"] = 1500

(***************************************************************************)
(* C21: whenever a lesson awaits several agent queries together with       *)
(* asyncio.gather, no two queries that are in flight at the same time run  *)
(* on the same Agent instance, so that no conversation history is shared   *)
(* by two of them.                                                         *)
(***************************************************************************)
InFlight(q) == q \in DOMAIN queries /\ queries[q].at = "running"
C21_OwnAgentInstance ==
    \A q1, q2 \in DOMAIN queries :
        (q1 # q2 /\ InFlight(q1) /\ InFlight(q2))
            => queries[q1].agent # queries[q2].agent

(***************************************************************************)
(* C22: NotifyOnlyGuardrailsHook only notifies: the callback of a message  *)
(* added and the callback of a completed invocation leave the agent's      *)
(* message list, and the content of every message on it, as they were, and *)
(* the request goes on, whether or not the text holds a blocked pattern.   *)
(***************************************************************************)
HookCalled == pc \in {"user added", "assistant added", "after"}
C22_NotifyOnly ==
    [][HookCalled => (messages' = messages /\ pc' # "failed")]_vars

\* a user message that holds a blocked pattern in capitals and an answer
\* that holds one across two blocks were both reported, and the invocation
\* completed with both messages as they were added
C22_Witness ==
    /\ pc = "invoked"
    /\ messages = <<[role |-> "user", content |-> <<Text("SECRET")>>],
                    [role |-> "assistant",
                     content |-> <<Text("credit "), Text("card")>>]>>
    /\ Len(printed) = 2
    /\ printed[1].source = "INPUT" /\ printed[1].violations = <<"secret">>
    /\ printed[2].source = "OUTPUT" /\ printed[2].violations = <<"credit card">>

(***************************************************************************)
(* C23: after any sequence of add_todo, complete_todo and delete_todo      *)
(* calls on one agent, no two todos of the stored list have the same id.   *)
(***************************************************************************)
C23_UniqueIds ==
    \A i, j \in 1..Len(Todos(state)) :
        i # j => Todos(state)[i].id # Todos(state)[j].id

(***************************************************************************)
(* C25: when two add_todo calls of one response run concurrently on the    *)
(* same agent, however their reads and writes of the list interleave,      *)
(* both items are in the stored list once both calls are complete, and     *)
(* they have different ids.                                                *)
(***************************************************************************)
C25_BothAdded ==
    pc = "executed" =>
        \E i, j \in 1..Len(Todos(state)) :
            /\ i # j
            /\ Todos(state)[i].text = calls[1].item /\ ~Todos(state)[i].done
            /\ Todos(state)[j].text = calls[2].item /\ ~Todos(state)[j].done
            /\ Todos(state)[i].id # Todos(state)[j].id

(***************************************************************************)
(* C24: after any sequence of add_note and delete_note calls on one        *)
(* NotebookManager, every add_note returned an id greater than every id    *)
(* returned before, next_id is greater than every key of notes, and the    *)
(* id of a deleted note was never given to a later note.                   *)
(***************************************************************************)
C24_IdsNeverReused ==
    /\ \A i, j \in 1..Len(history) :
           (i < j /\ history[j].tool = "add_note")
               => /\ history[i].tool = "add_note"
                      => history[i].note_id < history[j].note_id
                  /\ history[i].tool = "delete_note"
                      => history[i].note_id # history[j].note_id
    /\ \A k \in DOMAIN notes : next_id > k

\* a note was added, deleted, and another note added after it
C24_Witness ==
    /\ history = <<[tool |-> "add_note", note_id |-> 1],
                   [tool |-> "delete_note", note_id |-> 1],
                   [tool |-> "add_note", note_id |-> 2]>>
    /\ DOMAIN notes = {2}
    /\ next_id = 3
    /\ returned[2] = 2

(***************************************************************************)
(* C26: after any sequence of add_source and cite_source calls on one      *)
(* ResearchAssistant, every entry of citations has a url that is a key of  *)
(* sources; and cite_source with a url that was never added returns the    *)
(* not-found message and leaves citations and sources as they were.        *)
(***************************************************************************)
C26_CitationsOfSources ==
    [][/\ \A i \in 1..Len(citations') : citations'[i].url \in DOMAIN sources'
       /\ \A url \in Urls, user_id \in UserIds :
              (url \notin DOMAIN sources /\ cite_source(url, user_id))
                  => /\ returned' = NotFound(url)
                     /\ citations' = citations
                     /\ sources' = sources]_vars

\* one source was added and cited, and the citation of the other url was
\* refused
C26_Witness ==
    /\ DOMAIN sources = {"https://arxiv.org/abs/1706.03762"}
    /\ Len(citations) = 1
    /\ citations[1].url = "https://arxiv.org/abs/1706.03762"
    /\ citations[1].title = sources["https://arxiv.org/abs/1706.03762"].title
    /\ returned = NotFound("https://arxiv.org/abs/2005.14165")

====
